---- MODULE Spec2Model ----
(***************************************************************************)
(* Model of the comment commands of swift-docstrings                      *)
(* (src/src/commentCommands.ts, src/src/capsLabel.ts).                     *)
(*                                                                         *)
(* A string is a sequence of one-character strings, so that every length, *)
(* column and character test of the TypeScript code is computed and not   *)
(* assumed.  Chars("// a") turns a literal into that representation.       *)
(***************************************************************************)
EXTENDS Integers, Sequences, FiniteSets, TLC

(***************************************************************************)
(* Characters and the JavaScript string primitives the code uses.          *)
(***************************************************************************)
Chars(s) == [i \in 1..Len(s) |-> SubSeq(s, i, i)]

LowerLetters == <<"a", "b", "c", "d", "e", "f", "g", "h", "i", "j", "k", "l", "m", "n", "o", "p", "q", "r", "s", "t", "u", "v", "w", "x", "y", "z">>
UpperLetters == <<"A", "B", "C", "D", "E", "F", "G", "H", "I", "J", "K", "L", "M", "N", "O", "P", "Q", "R", "S", "T", "U", "V", "W", "X", "Y", "Z">>
LowerSet ==
    { "a", "b", "c", "d", "e", "f", "g", "h", "i", "j", "k", "l", "m",
      "n", "o", "p", "q", "r", "s", "t", "u", "v", "w", "x", "y", "z" }
UpperSet ==
    { "A", "B", "C", "D", "E", "F", "G", "H", "I", "J", "K", "L", "M",
      "N", "O", "P", "Q", "R", "S", "T", "U", "V", "W", "X", "Y", "Z" }
DigitSet == {"0", "1", "2", "3", "4", "5", "6", "7", "8", "9"}
LetterSet == LowerSet \cup UpperSet
\* \w of the regular expressions
WordSet == LetterSet \cup DigitSet \cup {"_"}
\* \s of the regular expressions and the characters trim() removes, among
\* the characters a model line can hold
SpaceSet == {" ", "\t"}

IsSpace(c) == c \in SpaceSet

\* the backtick character, which a TLA+ string literal cannot hold
Backtick == "<backtick>"
\* the three backticks that open or close a fenced code section
Fence == <<Backtick, Backtick, Backtick>>

Max(a, b) == IF a >= b THEN a ELSE b

\* 1-based position of the letter c in the alphabet letters
RECURSIVE LetterIndex(_, _, _)
LetterIndex(letters, c, k) == IF letters[k] = c THEN k ELSE LetterIndex(letters, c, k + 1)

ToLowerChar(c) ==
    IF c \in UpperSet THEN LowerLetters[LetterIndex(UpperLetters, c, 1)] ELSE c

ToUpperChar(c) ==
    IF c \in LowerSet THEN UpperLetters[LetterIndex(LowerLetters, c, 1)] ELSE c

ToLowerCase(s) == [i \in 1..Len(s) |-> ToLowerChar(s[i])]

\* s.substring(from) with a 0-based index
Substring(s, from) == SubSeq(s, from + 1, Len(s))

\* s.substring(from, to) with 0-based indices, to exclusive
Substring2(s, from, to) == SubSeq(s, from + 1, to)

StartsWith(s, p) == Len(p) <= Len(s) /\ SubSeq(s, 1, Len(p)) = p

\* case-insensitive prefix test (the /i flag) against a lower-case literal
StartsWithCI(s, lowerLiteral) ==
    /\ Len(lowerLiteral) <= Len(s)
    /\ \A k \in 1..Len(lowerLiteral) : ToLowerChar(s[k]) = lowerLiteral[k]

\* number of consecutive characters of s, from 1-based position i on, that
\* lie in the class C (a greedy  [C]*  at position i)
RECURSIVE RunIn(_, _, _)
RunIn(s, i, C) ==
    IF i > Len(s) \/ s[i] \notin C THEN 0 ELSE 1 + RunIn(s, i + 1, C)

\* the same for the complement class  [^C]*
RECURSIVE RunNotIn(_, _, _)
RunNotIn(s, i, C) ==
    IF i > Len(s) \/ s[i] \in C THEN 0 ELSE 1 + RunNotIn(s, i + 1, C)

\* number of trailing characters of s in the class C
RECURSIVE RunInBack(_, _, _)
RunInBack(s, i, C) ==
    IF i < 1 \/ s[i] \notin C THEN 0 ELSE 1 + RunInBack(s, i - 1, C)

TrimStart(s) == Substring(s, RunIn(s, 1, SpaceSet))

TrimEnd(s) == SubSeq(s, 1, Len(s) - RunInBack(s, Len(s), SpaceSet))

Trim(s) == TrimEnd(TrimStart(s))

\* ' '.repeat(n)
Spaces(n) == [i \in 1..n |-> " "]

\* s.indexOf(c, from): 0-based index of the first c at or after from, -1 if none
RECURSIVE IndexOfFrom(_, _, _)
IndexOfFrom(s, c, from) ==
    IF from >= Len(s) THEN -1
    ELSE IF s[from + 1] = c THEN from
    ELSE IndexOfFrom(s, c, from + 1)

\* parts.join(sep)
RECURSIVE Join(_, _)
Join(parts, sep) ==
    IF Len(parts) = 0 THEN <<>>
    ELSE IF Len(parts) = 1 THEN parts[1]
    ELSE parts[1] \o sep \o Join(Tail(parts), sep)

\* text.split(/\s+/).filter(Boolean): the maximal runs of non-space characters
RECURSIVE SplitWords(_)
SplitWords(s) ==
    LET t == TrimStart(s)
        n == RunNotIn(t, 1, SpaceSet)
    IN IF Len(t) = 0 THEN <<>>
       ELSE <<SubSeq(t, 1, n)>> \o SplitWords(Substring(t, n))

(***************************************************************************)
(* commentCommands.ts: constants and line recognisers.                     *)
(***************************************************************************)
MIN_WRAP_LINE_LENGTH == 40

LinePrefix == <<"/", "/">>
DocPrefix == <<"/", "/", "/">>
FourSlashes == <<"/", "/", "/", "/">>

KNOWN_DOC_TAGS ==
    { <<"a", "t", "t", "e", "n", "t", "i", "o", "n">>,
      <<"a", "u", "t", "h", "o", "r">>, <<"a", "u", "t", "h", "o", "r", "s">>,
      <<"b", "u", "g">>, <<"c", "o", "m", "p", "l", "e", "x", "i", "t", "y">>,
      <<"c", "o", "p", "y", "r", "i", "g", "h", "t">>, <<"d", "a", "t", "e">>,
      <<"e", "x", "p", "e", "r", "i", "m", "e", "n", "t">>,
      <<"i", "m", "p", "o", "r", "t", "a", "n", "t">>,
      <<"i", "n", "v", "a", "r", "i", "a", "n", "t">>, <<"n", "o", "t", "e">>,
      <<"p", "a", "r", "a", "m", "e", "t", "e", "r">>,
      <<"p", "a", "r", "a", "m", "e", "t", "e", "r", "s">>,
      <<"p", "o", "s", "t", "c", "o", "n", "d", "i", "t", "i", "o", "n">>,
      <<"p", "r", "e", "c", "o", "n", "d", "i", "t", "i", "o", "n">>,
      <<"r", "e", "m", "a", "r", "k">>, <<"r", "e", "m", "a", "r", "k", "s">>,
      <<"r", "e", "q", "u", "i", "r", "e", "s">>,
      <<"r", "e", "t", "u", "r", "n", "s">>,
      <<"s", "e", "e", "a", "l", "s", "o">>, <<"s", "i", "n", "c", "e">>,
      <<"t", "a", "g">>, <<"t", "h", "r", "o", "w", "s">>,
      <<"t", "o", "d", "o">>, <<"v", "e", "r", "s", "i", "o", "n">>,
      <<"w", "a", "r", "n", "i", "n", "g">> }

\* 0-based index of the first character that is neither space nor tab; -1
\* stands for null
\* a faulty variant of firstNonWhitespaceIndex: tabs are not skipped
firstNonSpaceIndex(text) ==
    LET n == RunIn(text, 1, {" "}) IN IF n = Len(text) THEN -1 ELSE n

firstNonWhitespaceIndex(text) ==
    LET n == RunIn(text, 1, {" ", "\t"})
    IN IF n >= Len(text) THEN -1 ELSE n

NoParts == [ok |-> FALSE]

parseCommentLine(line) ==
    LET commentStartCol == firstNonWhitespaceIndex(line)
        rest == Substring(line, commentStartCol)
    IN IF commentStartCol = -1 THEN NoParts
       ELSE IF StartsWith(rest, DocPrefix) /\ ~StartsWith(rest, FourSlashes)
       THEN [ok |-> TRUE,
             indent |-> Substring2(line, 0, commentStartCol),
             prefix |-> DocPrefix,
             afterPrefix |-> Substring(line, commentStartCol + 3),
             originalLine |-> line]
       ELSE IF StartsWith(rest, LinePrefix) /\ ~StartsWith(rest, DocPrefix)
       THEN [ok |-> TRUE,
             indent |-> Substring2(line, 0, commentStartCol),
             prefix |-> LinePrefix,
             afterPrefix |-> Substring(line, commentStartCol + 2),
             originalLine |-> line]
       ELSE NoParts

\* a faulty variant of isFenceLine: four backticks are required
isFenceLineFourTicks(afterPrefixTrimStart) ==
    StartsWith(afterPrefixTrimStart, Fence \o <<Backtick>>)

isFenceLine(afterPrefixTrimStart) == StartsWith(afterPrefixTrimStart, Fence)

\* \b after a keyword that ends in a word character: the next character is
\* not a word character, or the text ends
WordBoundaryAt(s, n) == n >= Len(s) \/ s[n + 1] \notin WordSet

DirectiveSwiftlint == <<"s", "w", "i", "f", "t", "l", "i", "n", "t">>
DirectiveSwiftformat == <<"s", "w", "i", "f", "t", "f", "o", "r", "m", "a", "t">>
DirectiveClangFormat == <<"c", "l", "a", "n", "g", "-", "f", "o", "r", "m", "a", "t">>
DirectiveSourcery == <<"s", "o", "u", "r", "c", "e", "r", "y", ":">>

\* /^(swiftlint(?::|\b)|swiftformat(?::|\b)|clang-format\b|sourcery:)/i
isDirectiveLine(afterPrefixTrimStart) ==
    LET s == afterPrefixTrimStart
        \* keyword(?::|\b)
        colonOrBoundary(k) ==
            /\ StartsWithCI(s, k)
            /\ \/ (Len(s) > Len(k) /\ s[Len(k) + 1] = ":")
               \/ WordBoundaryAt(s, Len(k))
    IN \/ colonOrBoundary(DirectiveSwiftlint)
       \/ colonOrBoundary(DirectiveSwiftformat)
       \/ (StartsWithCI(s, DirectiveClangFormat)
           /\ WordBoundaryAt(s, Len(DirectiveClangFormat)))
       \/ StartsWithCI(s, DirectiveSourcery)

\* a faulty variant of isTableOrAsciiArtLine: the run must have five characters
isTableOrAsciiArtLineLongRun(afterPrefixTrimStart) ==
    LET s == afterPrefixTrimStart
        pipes == Cardinality({i \in 1..Len(s) : s[i] = "|"})
    IN \/ pipes >= 2
       \/ \E i \in 1..Len(s) : RunIn(s, i, {"-", "="}) >= 5

\* at least two '|', or a run of at least four characters of [-=]
isTableOrAsciiArtLine(afterPrefixTrimStart) ==
    LET s == afterPrefixTrimStart
        pipes == Cardinality({i \in 1..Len(s) : s[i] = "|"})
    IN \/ pipes >= 2
       \/ \E i \in 1..Len(s) : RunIn(s, i, {"-", "="}) >= 4

\* listBulletRegex /^(\s*)([-*+])\s+/
listBulletMatches(s) ==
    LET n == RunIn(s, 1, SpaceSet)
    IN /\ n + 2 <= Len(s)
       /\ s[n + 1] \in {"-", "*", "+"}
       /\ IsSpace(s[n + 2])

\* listNumberRegex /^(\s*)(\d+)([.)])\s+/
listNumberMatches(s) ==
    LET n == RunIn(s, 1, SpaceSet)
        d == RunIn(s, n + 1, DigitSet)
    IN /\ d >= 1
       /\ n + d + 2 <= Len(s)
       /\ s[n + d + 1] \in {".", ")"}
       /\ IsSpace(s[n + d + 2])

\* a faulty variant of isMarkdownListItem: numbered items are not recognised
isMarkdownListItemBulletsOnly(afterPrefixTrimStart) ==
    listBulletMatches(afterPrefixTrimStart)

isMarkdownListItem(afterPrefixTrimStart) ==
    listBulletMatches(afterPrefixTrimStart) \/ listNumberMatches(afterPrefixTrimStart)

(***************************************************************************)
(* capsLabel.ts                                                            *)
(***************************************************************************)
NoMatch == [ok |-> FALSE]

\* /^[C]+(?:[ \t]+[C]+)*$/ for a character class C
WordsOfClass(candidate, C) ==
    /\ Len(candidate) >= 1
    /\ candidate[1] \in C
    /\ candidate[Len(candidate)] \in C
    /\ \A i \in 1..Len(candidate) : candidate[i] \in C \cup {" ", "\t"}

findLeadingCapsLabel(afterPrefix) ==
    LET labelStart == RunIn(afterPrefix, 1, SpaceSet)
        colonIndex == IndexOfFrom(afterPrefix, ":", labelStart)
        labelEnd == colonIndex - RunInBack(SubSeq(afterPrefix, labelStart + 1, colonIndex),
                                           colonIndex - labelStart, SpaceSet)
        candidate == Substring2(afterPrefix, labelStart, labelEnd)
    IN IF labelStart >= Len(afterPrefix) THEN NoMatch
       ELSE IF colonIndex = -1 THEN NoMatch
       ELSE IF labelEnd <= labelStart THEN NoMatch
       ELSE IF ~(\E i \in 1..Len(candidate) : candidate[i] \in UpperSet) THEN NoMatch
       ELSE IF ~WordsOfClass(candidate, UpperSet \cup DigitSet \cup {"_"}) THEN NoMatch
       ELSE [ok |-> TRUE, labelStart |-> labelStart, labelEnd |-> labelEnd,
             colonIndex |-> colonIndex, labelText |-> candidate]

findDocColonHeading(afterPrefix) ==
    LET headingStart == RunIn(afterPrefix, 1, SpaceSet)
        endTrim == Len(afterPrefix)
                   - RunInBack(SubSeq(afterPrefix, headingStart + 1, Len(afterPrefix)),
                               Len(afterPrefix) - headingStart, SpaceSet)
        colonIndex == endTrim - 1
        headingEnd == colonIndex - RunInBack(SubSeq(afterPrefix, headingStart + 1, colonIndex),
                                             colonIndex - headingStart, SpaceSet)
        candidate == Substring2(afterPrefix, headingStart, headingEnd)
    IN IF headingStart >= Len(afterPrefix) THEN NoMatch
       ELSE IF endTrim <= headingStart THEN NoMatch
       ELSE IF afterPrefix[endTrim] # ":" THEN NoMatch
       ELSE IF headingEnd <= headingStart THEN NoMatch
       ELSE IF ~WordsOfClass(candidate, WordSet) THEN NoMatch
       ELSE [ok |-> TRUE, headingStart |-> headingStart, headingEnd |-> headingEnd,
             colonIndex |-> colonIndex, headingText |-> candidate]

(***************************************************************************)
(* commentCommands.ts: the doc-tag parser.                                 *)
(***************************************************************************)
\* the group (\s*-\s+) at the start of s: its length, or 0 if it does not match
ListPrefixLen(s) ==
    LET n0 == RunIn(s, 1, SpaceSet)
        n1 == RunIn(s, n0 + 2, SpaceSet)
    IN IF n0 + 1 <= Len(s) /\ s[n0 + 1] = "-" /\ n1 >= 1 THEN n0 + 1 + n1 ELSE 0

\* the groups (\w+)(\s*:\s*) from 0-based position k on: the position after
\* them, or -1 if they do not match
WordColonEnd(s, k) ==
    LET w == RunIn(s, k + 1, WordSet)
        a == RunIn(s, k + w + 1, SpaceSet)
        c == k + w + a
        b == RunIn(s, c + 2, SpaceSet)
    IN IF w >= 1 /\ c + 1 <= Len(s) /\ s[c + 1] = ":" THEN c + 1 + b ELSE -1

ParameterWord == <<"p", "a", "r", "a", "m", "e", "t", "e", "r">>

\* docTagSingleParamRegex /^(\s*-\s+)(Parameter)(\s+)(\w+)(\s*:\s*)(.*)/i
docTagSingleParamMatch(s) ==
    LET p == ListPrefixLen(s)
        kwEnd == p + Len(ParameterWord)
        sp == RunIn(s, kwEnd + 1, SpaceSet)
        e == WordColonEnd(s, kwEnd + sp)
    IN IF p >= 1 /\ StartsWithCI(Substring(s, p), ParameterWord) /\ sp >= 1 /\ e # -1
       THEN [ok |-> TRUE,
             keywordPrefixText |-> Substring2(s, 0, e),
             listPrefixText |-> Substring2(s, 0, p),
             description |-> Substring(s, e),
             tagWordLower |-> ToLowerCase(Substring2(s, p, kwEnd))]
       ELSE NoMatch

\* docTagLineRegex /^(\s*-\s+)(\w+)(\s*:\s*)(.*)/
docTagLineMatch(s) ==
    LET p == ListPrefixLen(s)
        w == RunIn(s, p + 1, WordSet)
        e == WordColonEnd(s, p)
    IN IF p >= 1 /\ e # -1
       THEN [ok |-> TRUE,
             keywordPrefixText |-> Substring2(s, 0, e),
             listPrefixText |-> Substring2(s, 0, p),
             description |-> Substring(s, e),
             tagWordLower |-> ToLowerCase(Substring2(s, p, p + w))]
       ELSE NoMatch

tryParseDocTagLine(afterPrefix) ==
    LET spMatch == docTagSingleParamMatch(afterPrefix)
    IN IF spMatch.ok THEN spMatch ELSE docTagLineMatch(afterPrefix)

\* a faulty variant of normalizeDocTagKeywordPrefixText: nothing is normalised
normalizeDocTagKeywordPrefixTextKept(keywordPrefixText) == keywordPrefixText

normalizeDocTagKeywordPrefixText(keywordPrefixText) ==
    IF Len(keywordPrefixText) = 0 THEN keywordPrefixText
    ELSE IF ~IsSpace(keywordPrefixText[1]) THEN keywordPrefixText
    ELSE <<" ">> \o TrimStart(keywordPrefixText)

(***************************************************************************)
(* commentCommands.ts: greedy word wrapping.                               *)
(***************************************************************************)
\* a faulty variant of the loop below: the separating space is not counted
RECURSIVE WrapTokensUncountedSpace(_, _, _)
WrapTokensUncountedSpace(tokens, current, width) ==
    IF Len(tokens) = 0
    THEN (IF Len(current) > 0 THEN <<current>> ELSE <<>>)
    ELSE LET token == Head(tokens)
         IN IF Len(current) = 0
            THEN WrapTokensUncountedSpace(Tail(tokens), token, width)
            ELSE IF Len(current) + Len(token) <= width
            THEN WrapTokensUncountedSpace(Tail(tokens), current \o <<" ">> \o token, width)
            ELSE <<current>> \o WrapTokensUncountedSpace(Tail(tokens), token, width)

\* the loop of wrapWords over the tokens left, with the line being built
RECURSIVE WrapTokens(_, _, _)
WrapTokens(tokens, current, width) ==
    IF Len(tokens) = 0
    THEN (IF Len(current) > 0 THEN <<current>> ELSE <<>>)
    ELSE LET token == Head(tokens)
         IN IF Len(current) = 0
            THEN WrapTokens(Tail(tokens), token, width)
            ELSE IF Len(current) + 1 + Len(token) <= width
            THEN WrapTokens(Tail(tokens), current \o <<" ">> \o token, width)
            ELSE <<current>> \o WrapTokens(Tail(tokens), token, width)

wrapWords(text, maxWidth) ==
    LET width == Max(1, maxWidth)
        tokens == SplitWords(text)
    IN IF Len(tokens) = 0 THEN << <<>> >> ELSE WrapTokens(tokens, <<>>, width)

(***************************************************************************)
(* commentCommands.ts: wrapCommentBlock.                                   *)
(*                                                                         *)
(* The state of the loop over a block is the record                        *)
(*   [i, inFence, listMode, paragraph, output, paraSrc, origin]            *)
(* The first five fields are the locals of wrapCommentBlock.  paraSrc and  *)
(* origin are history fields that the code does not have: paraSrc holds    *)
(* the (0-based) block indices of the lines buffered in paragraph, and     *)
(* origin[n] tells how output[n] was made (kind: "verbatim", "item" for a   *)
(* list item that sets listMode, "blank", "paragraph", "tag" for the header*)
(* line of a doc tag, "continuation" for its further lines), from which    *)
(* source lines                                                            *)
(* of the block (src) and, for a line built by word wrapping, which chunk  *)
(* of wrapWords it carries (content).  They never influence the other      *)
(* fields.                                                                 *)
(***************************************************************************)
NonEmptyText(t) == Len(t) > 0

\* a faulty variant of availableParagraphWidth: the indent always counts
availableParagraphWidthIndented(indent, prefix, maxLineLength, wrapCountFromCommentStart) ==
    Max(1, maxLineLength - (Len(indent) + Len(prefix) + 1))

availableParagraphWidth(indent, prefix, maxLineLength, wrapCountFromCommentStart) ==
    Max(1, maxLineLength
           - ((IF wrapCountFromCommentStart THEN 0 ELSE Len(indent)) + Len(prefix) + 1))

\* `wrapped` in flushParagraph: the chunks the buffered paragraph wraps into
paragraphChunks(paragraph, indent, prefix, maxLineLength, wrapCountFromCommentStart) ==
    IF Len(paragraph) = 0 THEN <<>>
    ELSE LET availableWidth ==
                 availableParagraphWidth(indent, prefix, maxLineLength,
                                         wrapCountFromCommentStart)
             trimmed == [k \in 1..Len(paragraph) |-> Trim(paragraph[k])]
             joined == Join(SelectSeq(trimmed, NonEmptyText), <<" ">>)
         IN wrapWords(joined, availableWidth)

\* the lines flushParagraph pushes to output
flushParagraph(paragraph, indent, prefix, maxLineLength, wrapCountFromCommentStart) ==
    LET wrapped == paragraphChunks(paragraph, indent, prefix, maxLineLength,
                                   wrapCountFromCommentStart)
    IN [k \in 1..Len(wrapped) |->
           IF Len(wrapped[k]) = 0 THEN indent \o prefix
           ELSE indent \o prefix \o <<" ">> \o wrapped[k]]

\* a faulty variant of endsWithSentencePunctuation: no closers after the
\* sentence punctuation
endsWithSentencePunctuationBare(text) ==
    LET t == TrimEnd(text)
    IN Len(t) >= 1 /\ t[Len(t)] \in {".", "!", "?"}

\* /[.!?][)\]"']*$/ on text.trimEnd()
endsWithSentencePunctuation(text) ==
    LET t == TrimEnd(text)
        closers == RunInBack(t, Len(t), {")", "]", "\"", "'"})
    IN Len(t) - closers >= 1 /\ t[Len(t) - closers] \in {".", "!", "?"}

\* the loop that consumes the aligned continuation lines of a doc tag, from
\* block index j on; contPrefixes are the accepted prefixes in the order the
\* code tries them
RECURSIVE consumeContinuation(_, _, _, _)
consumeContinuation(parts, j, contPrefixes, descParts) ==
    IF j >= Len(parts) THEN [j |-> j, descParts |-> descParts]
    ELSE LET next == parts[j + 1]
             nextAfter == next.afterPrefix
             nextAfterTrimStart == TrimStart(nextAfter)
             matching == {k \in 1..Len(contPrefixes) : StartsWith(nextAfter, contPrefixes[k])}
             first == CHOOSE k \in matching : \A m \in matching : k <= m
             remainder == Substring(nextAfter, Len(contPrefixes[first]))
             stop == [j |-> j, descParts |-> descParts]
         IN IF Len(Trim(nextAfter)) = 0 THEN stop
            ELSE IF isFenceLine(nextAfterTrimStart) THEN stop
            ELSE IF isDirectiveLine(nextAfterTrimStart)
                    \/ isTableOrAsciiArtLine(nextAfterTrimStart) THEN stop
            ELSE IF isMarkdownListItem(nextAfterTrimStart) THEN stop
            ELSE IF matching = {} THEN stop
            ELSE IF Len(Trim(remainder)) = 0 THEN stop
            ELSE consumeContinuation(parts, j + 1, contPrefixes,
                                     Append(descParts, Trim(remainder)))

\* a faulty variant of docTagOutputLines: continuation lines are aligned with
\* the description (the legacy style) instead of the list bullet
docTagOutputLinesDescriptionAligned(indent, prefix, renderedKeywordPrefixText, renderedListPrefixText, wrappedDesc) ==
    IF Len(wrappedDesc) = 0
    THEN << indent \o prefix \o TrimEnd(renderedKeywordPrefixText) >>
    ELSE [k \in 1..Len(wrappedDesc) |->
            IF k = 1 THEN indent \o prefix \o renderedKeywordPrefixText \o wrappedDesc[1]
            ELSE indent \o prefix \o Spaces(Len(renderedKeywordPrefixText))
                        \o wrappedDesc[k]]

\* the lines the doc-tag branch pushes to output for the wrapped description
docTagOutputLines(indent, prefix, renderedKeywordPrefixText, renderedListPrefixText, wrappedDesc) ==
    LET renderedListContinuationPrefix == Spaces(Len(renderedListPrefixText))
    IN IF Len(wrappedDesc) = 0
       THEN << indent \o prefix \o TrimEnd(renderedKeywordPrefixText) >>
       ELSE [k \in 1..Len(wrappedDesc) |->
               IF k = 1 THEN indent \o prefix \o renderedKeywordPrefixText \o wrappedDesc[1]
               ELSE indent \o prefix \o renderedListContinuationPrefix \o wrappedDesc[k]]

\* the doc-tag branch for the tag line at block index i: the lines pushed to
\* output, the chunks they carry and the index j of the first line not consumed
wrapDocTag(parts, i, docTag, indent, prefix, maxLineLength, wrapCountFromCommentStart) ==
    LET rawKeywordPrefixText == docTag.keywordPrefixText
        rawListPrefixText == docTag.listPrefixText
        shouldNormalizeLeadingWhitespace == docTag.tagWordLower \in KNOWN_DOC_TAGS
        renderedKeywordPrefixText ==
            IF shouldNormalizeLeadingWhitespace
            THEN normalizeDocTagKeywordPrefixText(rawKeywordPrefixText)
            ELSE rawKeywordPrefixText
        renderedListPrefixText ==
            IF shouldNormalizeLeadingWhitespace
            THEN normalizeDocTagKeywordPrefixText(rawListPrefixText)
            ELSE rawListPrefixText
        contPrefixes == << Spaces(Len(rawKeywordPrefixText)),
                           Spaces(Len(renderedKeywordPrefixText)),
                           Spaces(Len(rawListPrefixText)),
                           Spaces(Len(renderedListPrefixText)) >>
        descParts0 == IF Len(Trim(docTag.description)) > 0
                      THEN <<Trim(docTag.description)>> ELSE <<>>
        consumed == consumeContinuation(parts, i + 1, contPrefixes, descParts0)
        fullDesc == Trim(Join(consumed.descParts, <<" ">>))
        availableWidth ==
            Max(1, maxLineLength
                   - ((IF wrapCountFromCommentStart THEN 0 ELSE Len(indent))
                      + Len(prefix) + Len(renderedKeywordPrefixText)))
        wrappedDesc == IF Len(fullDesc) > 0 THEN wrapWords(fullDesc, availableWidth)
                       ELSE << <<>> >>
    IN [j |-> consumed.j,
        chunks |-> wrappedDesc,
        lines |-> docTagOutputLines(indent, prefix, renderedKeywordPrefixText,
                                    renderedListPrefixText, wrappedDesc)]

\* st after flushParagraph(paragraph)
Flushed(st, indent, prefix, maxLineLength, wrapCountFromCommentStart) ==
    LET ls == flushParagraph(st.paragraph, indent, prefix, maxLineLength,
                             wrapCountFromCommentStart)
        chunks == paragraphChunks(st.paragraph, indent, prefix, maxLineLength,
                                  wrapCountFromCommentStart)
    IN [st EXCEPT !.output = @ \o ls,
                  !.origin = @ \o [k \in 1..Len(ls) |->
                                     [kind |-> "paragraph", src |-> st.paraSrc,
                                      content |-> chunks[k]]],
                  !.paragraph = <<>>,
                  !.paraSrc = {}]

\* st after output.push(line) for the source line st.i, and i++
Pushed(st, line, kind) ==
    [st EXCEPT !.output = Append(@, line),
               !.origin = Append(@, [kind |-> kind, src |-> {st.i}, content |-> <<>>]),
               !.i = @ + 1]

\* one iteration of the for loop of wrapCommentBlock, for the line parts[st.i]
wrapLineStep(parts, maxLineLength, wrapCountFromCommentStart, avoidWrappingAtPunctuationBreaks, st) ==
    LET indent == parts[1].indent
        prefix == parts[1].prefix
        p == parts[st.i + 1]
        after == p.afterPrefix
        afterTrimStart == TrimStart(after)
        isBlank == Len(Trim(after)) = 0
        isFence == isFenceLine(afterTrimStart)
        fl == Flushed(st, indent, prefix, maxLineLength, wrapCountFromCommentStart)
        docTag == IF prefix = DocPrefix THEN tryParseDocTagLine(after) ELSE NoMatch
        tag == wrapDocTag(parts, st.i, docTag, indent, prefix, maxLineLength,
                          wrapCountFromCommentStart)
        isHeading == /\ prefix = DocPrefix
                     /\ ~isMarkdownListItem(afterTrimStart)
                     /\ findDocColonHeading(after).ok
        \* from the caps-label test on
        lab == IF findLeadingCapsLabel(after).ok
               THEN [fl EXCEPT !.listMode = FALSE] ELSE st
        labFl == Flushed(lab, indent, prefix, maxLineLength, wrapCountFromCommentStart)
        normalized == IF StartsWith(after, <<" ">>) THEN Substring(after, 1) ELSE after
        breakFirst == /\ avoidWrappingAtPunctuationBreaks
                      /\ Len(lab.paragraph) > 0
                      /\ endsWithSentencePunctuation(lab.paragraph[Len(lab.paragraph)])
        para == IF breakFirst THEN labFl ELSE lab
    IN IF st.inFence
       THEN [Pushed(st, p.originalLine, "verbatim") EXCEPT !.inFence = ~isFence]
       ELSE IF isFence
       THEN [Pushed(fl, p.originalLine, "verbatim") EXCEPT !.listMode = FALSE,
                                                           !.inFence = TRUE]
       ELSE IF isBlank
       THEN [Pushed(fl, indent \o prefix, "blank") EXCEPT !.listMode = FALSE]
       ELSE IF isDirectiveLine(afterTrimStart) \/ isTableOrAsciiArtLine(afterTrimStart)
       THEN [Pushed(fl, p.originalLine, "verbatim") EXCEPT !.listMode = FALSE]
       ELSE IF docTag.ok
       THEN [fl EXCEPT !.listMode = FALSE,
                       !.output = @ \o tag.lines,
                       !.origin = @ \o [k \in 1..Len(tag.lines) |->
                                          [kind |-> IF k = 1 THEN "tag" ELSE "continuation",
                                           src |-> st.i .. (tag.j - 1),
                                           content |-> tag.chunks[k]]],
                       !.i = tag.j]
       ELSE IF isHeading
       THEN [Pushed(fl, p.originalLine, "verbatim") EXCEPT !.listMode = FALSE]
       ELSE IF isMarkdownListItem(afterTrimStart)
       THEN [Pushed(labFl, p.originalLine, "item") EXCEPT !.listMode = TRUE]
       ELSE IF lab.listMode
       THEN Pushed(lab, p.originalLine, "verbatim")
       ELSE [para EXCEPT !.paragraph = Append(@, normalized),
                         !.paraSrc = @ \cup {st.i},
                         !.i = @ + 1]

\* the state before the first iteration
BlockStart == [i |-> 0, inFence |-> FALSE, listMode |-> FALSE, paragraph |-> <<>>,
               output |-> <<>>, paraSrc |-> {}, origin |-> <<>>]

RECURSIVE wrapLoop(_, _, _, _, _)
wrapLoop(parts, maxLineLength, wrapCountFromCommentStart, avoidWrappingAtPunctuationBreaks, st) ==
    IF st.i >= Len(parts)
    THEN Flushed(st, parts[1].indent, parts[1].prefix, maxLineLength,
                 wrapCountFromCommentStart)
    ELSE wrapLoop(parts, maxLineLength, wrapCountFromCommentStart,
                  avoidWrappingAtPunctuationBreaks,
                  wrapLineStep(parts, maxLineLength, wrapCountFromCommentStart,
                               avoidWrappingAtPunctuationBreaks, st))

\* wrapCommentBlock as a function: the output lines
wrapCommentBlock(blockLines, maxLineLength, wrapCountFromCommentStart, avoidWrappingAtPunctuationBreaks) ==
    LET parts == [k \in 1..Len(blockLines) |-> parseCommentLine(blockLines[k])]
    IN IF \E k \in 1..Len(parts) : ~parts[k].ok
       THEN blockLines
       ELSE wrapLoop(parts, maxLineLength, wrapCountFromCommentStart,
                     avoidWrappingAtPunctuationBreaks, BlockStart).output

(***************************************************************************)
(* commentCommands.ts: computeWrapCommentsReplaceEdits as a state machine. *)
(***************************************************************************)
VARIABLES
    lines,                              \* the document snapshot (argument)
    maxLineLength,                      \* argument
    wrapCountFromCommentStart,          \* argument
    avoidWrappingAtPunctuationBreaks,   \* argument
    pc,                                 \* "scan", "block" or "done"
    i,                                  \* index of the outer loop (0-based)
    edits,                              \* the edits pushed so far
    blockStart,                         \* first line of the current block
    blockEnd,                           \* j: first line after the current block
    blk,                                \* the loop state of wrapCommentBlock
    deco,                               \* the range lists of applyDecorations
    config,                             \* the settings applyDecorations reads
    workspaceRun,                       \* the workspace title-case command
    ext                                 \* extension.ts: decorator, debounceTimer

vars == << lines, maxLineLength, wrapCountFromCommentStart,
           avoidWrappingAtPunctuationBreaks, pc, i, edits, blockStart, blockEnd, blk,
           deco, config, workspaceRun, ext >>

\* what the passes over one document read and never write
args == << lines, maxLineLength, wrapCountFromCommentStart,
           avoidWrappingAtPunctuationBreaks, config, workspaceRun, ext >>

\* the defaults of boldMarkLines and markSeparatorLines
DefaultConfig == [boldMarkLines |-> TRUE, markSeparatorLines |-> TRUE]

\* the workspace command is not running
NoCommand == [pc |-> "idle"]

\* the extension before activate()
NotActivated == [decorator |-> "undefined", debounceTimer |-> 0]

\* the state of the host that the passes over one document start in
HostIdle == config = DefaultConfig /\ workspaceRun = NoCommand /\ ext = NotActivated

\* the range lists applyDecorations starts from, all empty
NoDecorations ==
    [ slashRanges |-> <<>>, indentRanges |-> <<>>, textRanges |-> <<>>,
      codeRanges |-> <<>>, keywordRanges |-> <<>>, markdownMarkerRanges |-> <<>>,
      boldRanges |-> <<>>, italicRanges |-> <<>>, boldItalicRanges |-> <<>>,
      markRanges |-> <<>>, markSeparatorRanges |-> <<>>,
      regularCommentInlineCodeColorRanges |-> <<>>, capsLabelRanges |-> <<>> ]

\* the end-of-line string handed to the command
EOL == <<"\n">>

\* The values JavaScript can hand over as maxLineLength: a number with one
\* decimal, in tenths; NaN; undefined; a string that is not a number
JsTenths(t) == [type |-> "number", tenths |-> t]
JsNumber(n) == JsTenths(10 * n)
JsOther(type) == [type |-> type, tenths |-> 0]

\* value || 0: 0, NaN and undefined are falsy, a non-empty string is not
JsOrZero(value) ==
    IF value.type \in {"NaN", "undefined"} THEN JsNumber(0) ELSE value

\* Math.floor(value): a string that is not a number converts to NaN
JsFloor(value) ==
    IF value.type = "number" THEN JsNumber(value.tenths \div 10) ELSE JsOther("NaN")

\* a faulty variant of clampMax: no floor of MIN_WRAP_LINE_LENGTH
clampMaxUnclamped(requested) == JsOrZero(JsFloor(JsOrZero(requested))).tenths \div 10

\* Math.max(MIN_WRAP_LINE_LENGTH, Math.floor(maxLineLength || 0) || 0)
clampMax(requested) ==
    Max(MIN_WRAP_LINE_LENGTH, JsOrZero(JsFloor(JsOrZero(requested))).tenths \div 10)

\* a faulty variant of blockEndFrom: a change of indent does not end the block
RECURSIVE blockEndFromAnyIndent(_, _, _)
blockEndFromAnyIndent(ls, j, firstParts) ==
    IF j >= Len(ls) THEN j
    ELSE LET parts == parseCommentLine(ls[j + 1])
         IN IF ~parts.ok THEN j
            ELSE IF parts.prefix # firstParts.prefix THEN j
            ELSE blockEndFromAnyIndent(ls, j + 1, firstParts)

\* the inner loop that finds j, the end of the block that starts at line i0
RECURSIVE blockEndFrom(_, _, _)
blockEndFrom(ls, j, firstParts) ==
    IF j >= Len(ls) THEN j
    ELSE LET parts == parseCommentLine(ls[j + 1])
         IN IF ~parts.ok THEN j
            ELSE IF parts.prefix # firstParts.prefix THEN j
            ELSE IF parts.indent # firstParts.indent THEN j
            ELSE blockEndFrom(ls, j + 1, firstParts)

blockLines == SubSeq(lines, blockStart + 1, blockEnd)

blockParts == [k \in 1..Len(blockLines) |-> parseCommentLine(blockLines[k])]

\* `if (!firstParts) continue;`
SkipLine ==
    /\ pc = "scan"
    /\ i < Len(lines)
    /\ ~parseCommentLine(lines[i + 1]).ok
    /\ i' = i + 1
    /\ UNCHANGED << args, deco, pc, edits, blockStart, blockEnd, blk >>

\* a comment line starts a block: find its end and enter wrapCommentBlock
StartBlock ==
    /\ pc = "scan"
    /\ i < Len(lines)
    /\ parseCommentLine(lines[i + 1]).ok
    /\ blockStart' = i
    /\ blockEnd' = blockEndFrom(lines, i + 1, parseCommentLine(lines[i + 1]))
    /\ blk' = BlockStart
    /\ pc' = "block"
    /\ UNCHANGED << args, deco, i, edits >>

\* one iteration of the loop of wrapCommentBlock
WrapLine ==
    /\ pc = "block"
    /\ blk.i < Len(blockLines)
    /\ blk' = wrapLineStep(blockParts, clampMax(maxLineLength), wrapCountFromCommentStart,
                           avoidWrappingAtPunctuationBreaks, blk)
    /\ UNCHANGED << args, deco, pc, i, edits, blockStart, blockEnd >>

\* the final flushParagraph, the comparison with the block and the edit
EndBlock ==
    /\ pc = "block"
    /\ blk.i >= Len(blockLines)
    /\ LET done == Flushed(blk, blockParts[1].indent, blockParts[1].prefix,
                           clampMax(maxLineLength), wrapCountFromCommentStart)
           wrapped == done.output
           same == /\ Len(wrapped) = Len(blockLines)
                   /\ \A k \in 1..Len(wrapped) : wrapped[k] = blockLines[k]
       IN /\ blk' = done
          /\ edits' = IF same THEN edits
                      ELSE Append(edits, [startLine |-> blockStart,
                                          endLine |-> blockEnd - 1,
                                          text |-> Join(wrapped, EOL)])
    /\ i' = blockEnd
    /\ pc' = "scan"
    /\ UNCHANGED << args, deco, blockStart, blockEnd >>

\* `return edits;`
ReturnEdits ==
    /\ pc = "scan"
    /\ i >= Len(lines)
    /\ pc' = "done"
    /\ UNCHANGED << args, deco, i, edits, blockStart, blockEnd, blk >>

NextWrap == SkipLine \/ StartBlock \/ WrapLine \/ EndBlock \/ ReturnEdits

\* computeWrapCommentsReplaceEdits as a function: the loop from line i0 on
RECURSIVE wrapEditsFrom(_, _, _, _, _)
wrapEditsFrom(ls, i0, clamp, countFromStart, avoidBreaks) ==
    IF i0 >= Len(ls) THEN <<>>
    ELSE LET firstParts == parseCommentLine(ls[i0 + 1])
             j == blockEndFrom(ls, i0 + 1, firstParts)
             bl == SubSeq(ls, i0 + 1, j)
             wrapped == wrapCommentBlock(bl, clamp, countFromStart, avoidBreaks)
         IN IF ~firstParts.ok
            THEN wrapEditsFrom(ls, i0 + 1, clamp, countFromStart, avoidBreaks)
            ELSE (IF wrapped = bl THEN <<>>
                  ELSE << [startLine |-> i0, endLine |-> j - 1,
                           text |-> Join(wrapped, EOL)] >>)
                 \o wrapEditsFrom(ls, j, clamp, countFromStart, avoidBreaks)

computeWrapCommentsReplaceEdits(ls, requested, countFromStart, avoidBreaks) ==
    wrapEditsFrom(ls, 0, clampMax(requested), countFromStart, avoidBreaks)

(***************************************************************************)
(* The host applies the edits: each replaces the lines startLine..endLine  *)
(* by its text, split at the end-of-line string.                           *)
(***************************************************************************)
RECURSIVE SplitLines(_)
SplitLines(text) ==
    LET n == RunNotIn(text, 1, {"\n"})
    IN IF n >= Len(text) THEN <<text>>
       ELSE <<SubSeq(text, 1, n)>> \o SplitLines(Substring(text, n + 1))

\* applied from the last edit to the first, so that line numbers stay valid
RECURSIVE ApplyEdits(_, _)
ApplyEdits(ls, es) ==
    IF Len(es) = 0 THEN ls
    ELSE LET e == es[Len(es)]
             applied == SubSeq(ls, 1, e.startLine) \o SplitLines(e.text)
                        \o SubSeq(ls, e.endLine + 2, Len(ls))
         IN ApplyEdits(applied, SubSeq(es, 1, Len(es) - 1))

(***************************************************************************)
(* Inputs.  A document is a block of comment lines that share one prefix   *)
(* and one indent, followed by a line of code.  The block is any sequence  *)
(* of at most MaxLines texts drawn from a family of texts after the        *)
(* prefix.                                                                 *)
(***************************************************************************)
MaxLines == 3

Rep(c, n) == [k \in 1..n |-> c]

SeqsUpTo(S, n) == UNION {[1..k -> S] : k \in 1..n}

CodeLine == Chars("let x = 1")

Document(indent, prefix, afters) ==
    [k \in 1..Len(afters) |-> indent \o prefix \o afters[k]] \o <<CodeLine>>

\* a call's arguments other than the document
Call(requested, countFromStart, avoidBreaks) ==
    [maxLineLength |-> JsNumber(requested), wrapCountFromCommentStart |-> countFromStart,
     avoidWrappingAtPunctuationBreaks |-> avoidBreaks]

InitWrap(indents, prefixes, texts, calls) ==
    /\ \E indent \in indents, prefix \in prefixes, afters \in SeqsUpTo(texts, MaxLines) :
           lines = Document(indent, prefix, afters)
    /\ \E call \in calls :
           /\ maxLineLength = call.maxLineLength
           /\ wrapCountFromCommentStart = call.wrapCountFromCommentStart
           /\ avoidWrappingAtPunctuationBreaks = call.avoidWrappingAtPunctuationBreaks
    /\ pc = "scan"
    /\ i = 0
    /\ edits = <<>>
    /\ blockStart = 0
    /\ blockEnd = 0
    /\ blk = BlockStart
    /\ deco = NoDecorations
    /\ HostIdle

\* prose, directives, tables and blank lines, in // and /// blocks
ProseTexts ==
    { <<" ">> \o Rep("a", 18) \o <<" ">> \o Rep("b", 18) \o Chars(" cc"),
      Chars(" dd  ee."),
      Chars("  "),
      Chars("   SwiftLint:disable gg"),
      Chars(" h | i | j"),
      Chars("\tkk ===="),
      Chars(" - Returns: mm"),
      <<" ">> \o Fence }

InitProse ==
    InitWrap({<<>>}, {LinePrefix, DocPrefix}, ProseTexts,
             {Call(0, FALSE, FALSE), Call(0, FALSE, TRUE)})

SpecProse == InitProse /\ [][NextWrap]_vars

\* doc tags, their continuation lines and prose, in /// blocks
TagTexts ==
    { Chars(" - Returns: ") \o Rep("a", 12) \o <<" ">> \o Rep("b", 12) \o Chars(" - note: c"),
      Chars("    - Throws: ") \o Rep("d", 18) \o Chars("  ") \o Rep("e", 18) \o <<" ">>,
      Chars("- note: ff"),
      Chars("\t- gg:  hh"),
      Chars(" - Parameter p: ") \o Rep("q", 18) \o Chars(" rrr"),
      Chars("   NOTE: ii"),
      <<" ">> \o Rep("j", 16) \o Chars(" kk.") }

InitTag ==
    \/ InitWrap({<<>>}, {DocPrefix}, TagTexts, {Call(0, FALSE, FALSE)})
    \/ InitWrap({Chars("  ")}, {DocPrefix}, TagTexts,
                {Call(0, FALSE, FALSE), Call(0, TRUE, FALSE), Call(44, FALSE, FALSE)})

SpecTag == InitTag /\ [][NextWrap]_vars

\* fences, lists and the lines that end a list, in // and /// blocks
ListTexts ==
    { <<" ">> \o Fence,
      Chars("   ") \o Rep("x", 20) \o Chars("   ") \o Rep("y", 20),
      Chars(" - item  one"),
      Chars(" 1) two"),
      Chars("  "),
      Chars(" NOTE: n  m"),
      Chars(" Notes:"),
      Chars(" swiftlint:disable"),
      Chars(" - Returns:   z") }

InitList ==
    InitWrap({<<>>}, {LinePrefix, DocPrefix}, ListTexts, {Call(0, FALSE, FALSE)})

SpecList == InitList /\ [][NextWrap]_vars

(***************************************************************************)
(* Vocabulary of the properties of reflow.  Block lines are numbered from  *)
(* 0, as in the code.                                                      *)
(***************************************************************************)
BlockIndent == parseCommentLine(lines[blockStart + 1]).indent
BlockPrefix == parseCommentLine(lines[blockStart + 1]).prefix
BlockSize == blockEnd - blockStart
SrcAfter(k) == parseCommentLine(lines[blockStart + k + 1]).afterPrefix
OutCount == Len(blk.output)

\* the text of output line n after the indent and the comment prefix
OutAfter(n) == Substring(blk.output[n], Len(BlockIndent) + Len(BlockPrefix))

\* the block has been wrapped completely
BlockDone == pc # "block" /\ BlockSize > 0

\* source line k reached the output as exactly one line with the text `text`,
\* made from line k alone
EmittedAs(k, text) ==
    /\ \E n \in 1..OutCount : blk.origin[n].src = {k} /\ blk.output[n] = text
    /\ Cardinality({n \in 1..OutCount : k \in blk.origin[n].src}) = 1

EmittedVerbatim(k) == EmittedAs(k, lines[blockStart + k + 1])

IsBlankText(text) == \A c \in 1..Len(text) : IsSpace(text[c])

\* the text starts, after leading whitespace, with three backticks
IsFenceText(text) ==
    LET n == RunIn(text, 1, SpaceSet)
    IN Len(text) >= n + 3 /\ \A c \in 1..3 : text[n + c] = Backtick

\* a fence is open when source line k is read: an odd number of fence lines
\* precede it
RECURSIVE FenceOpenBefore(_)
FenceOpenBefore(k) ==
    IF k = 0 THEN FALSE
    ELSE FenceOpenBefore(k - 1) # IsFenceText(SrcAfter(k - 1))

\* line k belongs to a fenced section: opening line, content or closing line
Fenced(k) == FenceOpenBefore(k) \/ IsFenceText(SrcAfter(k))

IsSubstring(t, u) ==
    \E off \in 0..(Len(u) - Len(t)) : SubSeq(u, off + 1, off + Len(t)) = t

(***************************************************************************)
(* C1: reflow is idempotent: applying the edits of                         *)
(* computeWrapCommentsReplaceEdits and calling it again with the same      *)
(* width and flags returns no edits.                                       *)
(***************************************************************************)
C1_ReflowIdempotent ==
    pc = "done" =>
        computeWrapCommentsReplaceEdits(ApplyEdits(lines, edits), maxLineLength,
                                        wrapCountFromCommentStart,
                                        avoidWrappingAtPunctuationBreaks) = <<>>

(***************************************************************************)
(* C2: every output line built by word wrapping (paragraph line, doc-tag   *)
(* header or continuation line) is at most max(40, maxLineLength) long,    *)
(* measured from the start of the line, or from the comment marker when    *)
(* wrapCountFromCommentStart is set, unless the wrapped content of the     *)
(* line is a single token or empty; and no token of a source line is split *)
(* across output lines.                                                    *)
(***************************************************************************)
WrappedKinds == {"paragraph", "tag", "continuation"}

MeasuredLength(line) ==
    IF wrapCountFromCommentStart THEN Len(line) - Len(BlockIndent) ELSE Len(line)

TokenSet(text) == LET w == SplitWords(text) IN {w[t] : t \in 1..Len(w)}

C2_WrappedLinesFit ==
    /\ \A n \in 1..OutCount :
          blk.origin[n].kind \in WrappedKinds =>
              \/ Len(SplitWords(blk.origin[n].content)) <= 1
              \/ MeasuredLength(blk.output[n]) <= Max(40, maxLineLength.tenths \div 10)
    /\ BlockDone =>
          LET P == blockParts
              skip == Len(P[1].indent) + Len(P[1].prefix)
              outTokens == [n \in 1..OutCount |-> TokenSet(Substring(blk.output[n], skip))]
          IN \A k \in 0..(BlockSize - 1) :
                \A t \in TokenSet(P[k + 1].afterPrefix) :
                    \E n \in 1..OutCount :
                        /\ k \in blk.origin[n].src
                        /\ \E u \in outTokens[n] : IsSubstring(t, u)

\* a doc-tag header that fills the width exactly with two tokens, followed by
\* a continuation line, and a paragraph wrapped onto two lines, in an indented
\* block measured from the comment marker
C2_Witness ==
    /\ BlockDone
    /\ wrapCountFromCommentStart
    /\ Len(BlockIndent) > 0
    /\ \E n \in 1..(OutCount - 1) :
          /\ blk.origin[n].kind = "tag"
          /\ blk.origin[n + 1].kind = "continuation"
          /\ Len(SplitWords(blk.origin[n].content)) = 2
          /\ MeasuredLength(blk.output[n]) = 40
    /\ \E n \in 1..(OutCount - 1) :
          /\ blk.origin[n].kind = "paragraph"
          /\ blk.origin[n + 1].kind = "paragraph"
          /\ blk.origin[n + 1].src = blk.origin[n].src

(***************************************************************************)
(* C3: every line of a fenced section, from the opening fence line through *)
(* the closing one or the end of the block, is emitted unchanged; a block  *)
(* that consists of a fenced section only yields no edit.                  *)
(***************************************************************************)
C3_FencedVerbatim ==
    /\ \A k \in 0..(blk.i - 1) : Fenced(k) => EmittedVerbatim(k)
    /\ (pc = "done" /\ \A k \in 0..(BlockSize - 1) : Fenced(k)) => edits = <<>>

\* a block of an opening fence, a line longer than the width and a closing fence
C3_Witness ==
    /\ pc = "done"
    /\ BlockSize = 3
    /\ IsFenceText(SrcAfter(0)) /\ IsFenceText(SrcAfter(2))
    /\ ~IsFenceText(SrcAfter(1)) /\ Len(blockLines[2]) > 40
    /\ edits = <<>>

(***************************************************************************)
(* List mode.                                                              *)
(***************************************************************************)
\* a Markdown list item: after optional whitespace, one of - * + and
\* whitespace, or digits, one of . ) and whitespace
IsListItemText(text) ==
    LET n == RunIn(text, 1, SpaceSet)
        d == RunIn(text, n + 1, DigitSet)
    IN \/ /\ Len(text) >= n + 2
          /\ text[n + 1] \in {"-", "*", "+"}
          /\ text[n + 2] \in SpaceSet
       \/ /\ d >= 1
          /\ Len(text) >= n + d + 2
          /\ text[n + d + 1] \in {".", ")"}
          /\ text[n + d + 2] \in SpaceSet

\* source line m was emitted as a list item and put the reflow into list mode
ListEntry(m) ==
    \E n \in 1..OutCount : blk.origin[n].kind = "item" /\ blk.origin[n].src = {m}

\* a line at which wrapCommentBlock leaves list mode
ListEnder(prefix, after) ==
    \/ IsBlankText(after)
    \/ isFenceLine(TrimStart(after))
    \/ isDirectiveLine(TrimStart(after))
    \/ isTableOrAsciiArtLine(TrimStart(after))
    \/ (prefix = DocPrefix /\ tryParseDocTagLine(after).ok)
    \/ (prefix = DocPrefix /\ findDocColonHeading(after).ok)
    \/ findLeadingCapsLabel(after).ok

FirstSrc(n) == CHOOSE k \in blk.origin[n].src : \A j \in blk.origin[n].src : k <= j

\* the header line of the doc tag that continuation line n belongs to
HeaderOf(n) ==
    CHOOSE h \in 1..n : /\ blk.origin[h].kind = "tag"
                        /\ \A m \in (h + 1)..n : blk.origin[m].kind # "tag"

\* the length of the list prefix of a doc-tag line: the text up to and
\* including the whitespace after the bullet
ListPrefixLength(text) ==
    LET a == RunIn(text, 1, SpaceSet)
    IN a + 1 + RunIn(text, a + 2, SpaceSet)

(***************************************************************************)
(* C5: the first output line of a doc tag is indent, ///, the keyword      *)
(* prefix (its leading whitespace possibly normalised) and the first chunk *)
(* of the description; every further line is indent, ///, N spaces and a   *)
(* chunk, where N is the length of the list prefix of the first line (the  *)
(* text up to and including the whitespace after the bullet), which is     *)
(* shorter than the keyword prefix.                                        *)
(***************************************************************************)
C5_TagContinuationAligned ==
    LET indent == BlockIndent
        skip == Len(indent) + 3
    IN \A n \in 1..OutCount :
          /\ blk.origin[n].kind = "tag" =>
                LET raw == tryParseDocTagLine(SrcAfter(FirstSrc(n)))
                    outAfter == Substring(blk.output[n], skip)
                    kLen == Len(outAfter) - Len(blk.origin[n].content)
                IN /\ raw.ok
                   /\ StartsWith(blk.output[n], indent \o DocPrefix)
                   /\ kLen > 0
                   /\ Substring(outAfter, kLen) = blk.origin[n].content
                   /\ TrimStart(SubSeq(outAfter, 1, kLen)) = TrimStart(raw.keywordPrefixText)
                   /\ ListPrefixLength(outAfter) < kLen
          /\ blk.origin[n].kind = "continuation" =>
                LET N == ListPrefixLength(Substring(blk.output[HeaderOf(n)], skip))
                IN /\ blk.output[n] = indent \o DocPrefix \o Spaces(N) \o blk.origin[n].content
                   /\ Len(blk.origin[n].content) > 0
                   /\ ~IsSpace(blk.origin[n].content[1])
                   /\ blk.origin[n].src = blk.origin[HeaderOf(n)].src

\* a `- Parameter name:` tag in an indented block, wrapped onto two lines
C5_Witness ==
    /\ BlockDone
    /\ Len(BlockIndent) > 0
    /\ \E n \in 2..OutCount :
          /\ blk.origin[n].kind = "continuation"
          /\ blk.origin[n - 1].kind = "tag"
          /\ StartsWith(OutAfter(n - 1), Chars(" - Parameter p: "))
          /\ StartsWith(OutAfter(n), Chars("   ")) /\ OutAfter(n)[4] # " "

(***************************************************************************)
(* C6 as stated: the header line of a doc tag with a known keyword has     *)
(* exactly one space between /// and the bullet, whatever whitespace the   *)
(* source line has there.                                                  *)
(***************************************************************************)
KnownTagHeader(n) ==
    /\ blk.origin[n].kind = "tag"
    /\ tryParseDocTagLine(SrcAfter(FirstSrc(n))).tagWordLower \in KNOWN_DOC_TAGS

C6_KnownTagOneSpace ==
    \A n \in 1..OutCount :
        KnownTagHeader(n) => StartsWith(OutAfter(n), <<" ", "-">>)

(***************************************************************************)
(* C6: the header line of a doc tag with a known keyword has exactly one   *)
(* space between /// and the bullet when the source line has whitespace    *)
(* there (spaces or tabs, one or more), and none when the source line has  *)
(* none.                                                                   *)
(***************************************************************************)
C6_KnownTagAtMostOneSpace ==
    \A n \in 1..OutCount :
        KnownTagHeader(n) =>
            LET src == SrcAfter(FirstSrc(n))
            IN IF IsSpace(src[1])
               THEN StartsWith(OutAfter(n), <<" ", "-">>)
               ELSE src[1] = "-" /\ StartsWith(OutAfter(n), <<"-">>)

\* a header with four spaces before the bullet and one without any, both
\* reflowed in one block
C6_Witness ==
    /\ BlockDone
    /\ \E n, m \in 1..OutCount :
          /\ KnownTagHeader(n) /\ KnownTagHeader(m)
          /\ StartsWith(SrcAfter(FirstSrc(n)), Chars("    -"))
          /\ StartsWith(OutAfter(n), Chars(" - Throws: "))
          /\ StartsWith(SrcAfter(FirstSrc(m)), Chars("- note:"))

(***************************************************************************)
(* C7: a line that starts with a caps label (NOTE:, IMPORTANT:, ...) is    *)
(* never merged with text of an earlier line: no output line is made from  *)
(* a caps-label line and a line before it.                                 *)
(***************************************************************************)
C7_CapsLabelStartsFresh ==
    LET P == blockParts
    IN \A n \in 1..OutCount :
          \A k \in blk.origin[n].src :
              findLeadingCapsLabel(P[k + 1].afterPrefix).ok =>
                  \A j \in blk.origin[n].src : j >= k

(***************************************************************************)
(* Directive, table and blank lines.                                       *)
(***************************************************************************)
\* the text starts, after leading whitespace and in any letter case, with
\* the word swiftlint, swiftformat or clang-format (a word: not followed by a
\* letter, a digit or an underscore), or with sourcery:
IsDirectiveText(text) ==
    LET t == ToLowerCase(TrimStart(text))
        word(w) == /\ StartsWith(t, w)
                   /\ (Len(t) = Len(w) \/ t[Len(w) + 1] \notin WordSet)
    IN \/ word(<<"s", "w", "i", "f", "t", "l", "i", "n", "t">>)
       \/ word(<<"s", "w", "i", "f", "t", "f", "o", "r", "m", "a", "t">>)
       \/ word(<<"c", "l", "a", "n", "g", "-", "f", "o", "r", "m", "a", "t">>)
       \/ StartsWith(t, <<"s", "o", "u", "r", "c", "e", "r", "y", ":">>)

\* at least two | characters, or four consecutive characters of - and =
IsTableText(text) ==
    \/ \E a, b \in 1..Len(text) : a < b /\ text[a] = "|" /\ text[b] = "|"
    \/ \E a \in 1..(Len(text) - 3) : \A c \in a..(a + 3) : text[c] \in {"-", "="}

(***************************************************************************)
(* C8: outside a fence, every directive line and every table or ASCII-art  *)
(* line is emitted unchanged as an output line of its own, made from that  *)
(* line alone, and a blank comment line is emitted as indent and prefix.   *)
(***************************************************************************)
C8_DirectiveTableBlankVerbatim ==
    LET P == blockParts
    IN \A k \in 0..(blk.i - 1) :
          ~Fenced(k) =>
              /\ (IsDirectiveText(P[k + 1].afterPrefix) \/ IsTableText(P[k + 1].afterPrefix))
                    => EmittedVerbatim(k)
              /\ IsBlankText(P[k + 1].afterPrefix)
                    => EmittedAs(k, P[1].indent \o P[1].prefix)

\* a doc tag, then a directive line aligned like a continuation of the tag,
\* then a table line: the tag is not continued, all three lines are kept
C8_Witness ==
    /\ BlockDone
    /\ BlockSize = 3
    /\ BlockPrefix = DocPrefix
    /\ tryParseDocTagLine(SrcAfter(0)).ok
    /\ IsDirectiveText(SrcAfter(1)) /\ StartsWith(SrcAfter(1), Chars("   "))
    /\ IsTableText(SrcAfter(2)) /\ ~IsDirectiveText(SrcAfter(2))
    /\ blk.output = blockLines

\* a blank line with whitespace after the prefix, between two paragraph lines
C8_WitnessBlank ==
    /\ BlockDone
    /\ BlockSize = 3
    /\ IsBlankText(SrcAfter(1)) /\ Len(SrcAfter(1)) > 0
    /\ blk.output[2] = BlockIndent \o BlockPrefix
    /\ blk.origin[1].kind = "paragraph" /\ blk.origin[3].kind = "paragraph"

(***************************************************************************)
(* commentCommands.ts: computeConvertLineCommentsToDocCommentInserts, one  *)
(* step per iteration of its loop.  `i` is the loop variable `line`, and   *)
(* `edits` the list of inserts; the variables of reflow keep their initial *)
(* values.                                                                 *)
(***************************************************************************)
\* the line starts, after its leading spaces and tabs, with // but not ///
needsDocSlash(text) ==
    LET commentStartCol == firstNonWhitespaceIndex(text)
        rest == Substring(text, commentStartCol)
    IN /\ commentStartCol # -1
       /\ StartsWith(rest, LinePrefix)
       /\ ~StartsWith(rest, DocPrefix)

ConvertSkipLine ==
    /\ pc = "convert"
    /\ i < Len(lines)
    /\ ~needsDocSlash(lines[i + 1])
    /\ i' = i + 1
    /\ UNCHANGED << args, deco, pc, edits, blockStart, blockEnd, blk >>

ConvertInsertSlash ==
    /\ pc = "convert"
    /\ i < Len(lines)
    /\ needsDocSlash(lines[i + 1])
    /\ edits' = Append(edits, [line |-> i,
                               character |-> firstNonWhitespaceIndex(lines[i + 1]) + 2,
                               text |-> <<"/">>])
    /\ i' = i + 1
    /\ UNCHANGED << args, deco, pc, blockStart, blockEnd, blk >>

ConvertReturn ==
    /\ pc = "convert"
    /\ i >= Len(lines)
    /\ pc' = "converted"
    /\ UNCHANGED << args, deco, i, edits, blockStart, blockEnd, blk >>

NextConvert == ConvertSkipLine \/ ConvertInsertSlash \/ ConvertReturn

\* line comments, doc comments, code, trailing comments, string literals
ConvertTexts ==
    { Chars("// a"),
      Chars("  //b"),
      Chars(" \t // c"),
      Chars("//"),
      Chars("  /// d"),
      Chars("////"),
      Chars("let x = 1 // t"),
      Chars("let s = \"// q\""),
      Chars("/ / e"),
      Chars(" \t"),
      <<>> }

InitConvert ==
    /\ lines \in SeqsUpTo(ConvertTexts, MaxLines)
    /\ maxLineLength = 0
    /\ wrapCountFromCommentStart = FALSE
    /\ avoidWrappingAtPunctuationBreaks = FALSE
    /\ pc = "convert"
    /\ i = 0
    /\ edits = <<>>
    /\ blockStart = 0
    /\ blockEnd = 0
    /\ blk = BlockStart
    /\ deco = NoDecorations
    /\ HostIdle

SpecConvert == InitConvert /\ [][NextConvert]_vars

\* the text has // at column c (0-based), only spaces and tabs before it and
\* no third slash after it
LineCommentAt(text, c) ==
    /\ c >= 0
    /\ Len(text) >= c + 2
    /\ \A k \in 1..c : text[k] \in {" ", "\t"}
    /\ text[c + 1] = "/" /\ text[c + 2] = "/"
    /\ (Len(text) >= c + 3 => text[c + 3] # "/")

(***************************************************************************)
(* C9: computeConvertLineCommentsToDocCommentInserts returns, in ascending *)
(* line order, exactly one insert of / at column c+2 for every line whose  *)
(* first characters after spaces and tabs are // at column c, not followed *)
(* by a third /, and no insert for any other line.                         *)
(***************************************************************************)
C9_OneSlashPerLineComment ==
    pc \in {"convert", "converted"} =>
        /\ \A e \in 1..Len(edits) :
              /\ edits[e].text = <<"/">>
              /\ edits[e].line \in 0..(i - 1)
              /\ LineCommentAt(lines[edits[e].line + 1], edits[e].character - 2)
        /\ \A k \in 0..(i - 1) :
              (\E c \in 0..Len(lines[k + 1]) : LineCommentAt(lines[k + 1], c))
                  => Cardinality({e \in 1..Len(edits) : edits[e].line = k}) = 1
        /\ \A e, f \in 1..Len(edits) : e < f => edits[e].line < edits[f].line
        /\ pc = "converted" => i = Len(lines)

\* a line comment behind spaces and a tab, a doc comment and a trailing
\* comment: one insert, at column 5 of the first line
C9_Witness ==
    /\ pc = "converted"
    /\ Len(lines) = 3
    /\ lines[1] = Chars(" \t // c")
    /\ lines[2] = Chars("  /// d")
    /\ lines[3] = Chars("let x = 1 // t")
    /\ edits = << [line |-> 0, character |-> 5, text |-> <<"/">>] >>

(***************************************************************************)
(* commentCommands.ts: title-casing of // MARK: lines.  \s is modelled by  *)
(* space and tab.                                                          *)
(***************************************************************************)
MarkWord == <<"M", "A", "R", "K", ":">>

\* a faulty variant of markLineMatch: the lookahead after MARK: is missing
markLineMatchAnyFollower(line) ==
    LET n == RunIn(line, 1, SpaceSet)
        rest == Substring(line, n)
        afterSlashes == Substring(rest, 2)
        m == TrimStart(afterSlashes)
    IN IF StartsWith(rest, LinePrefix) /\ StartsWith(m, MarkWord)
       THEN [ok |-> TRUE, indent |-> SubSeq(line, 1, n), slashes |-> LinePrefix,
             afterSlashes |-> afterSlashes]
       ELSE NoMatch

\* markLineRegex /^(\s*)(\/\/)(\s*MARK:(?=\s|$|-).*)$/
markLineMatch(line) ==
    LET n == RunIn(line, 1, SpaceSet)
        rest == Substring(line, n)
        afterSlashes == Substring(rest, 2)
        m == TrimStart(afterSlashes)
    IN IF /\ StartsWith(rest, LinePrefix)
          /\ StartsWith(m, MarkWord)
          /\ (Len(m) = 5 \/ m[6] \in SpaceSet \cup {"-"})
       THEN [ok |-> TRUE, indent |-> SubSeq(line, 1, n), slashes |-> LinePrefix,
             afterSlashes |-> afterSlashes]
       ELSE NoMatch

MINOR_WORDS ==
    { <<"a">>, <<"a", "n">>, <<"t", "h", "e">>, <<"a", "n", "d">>,
      <<"b", "u", "t">>, <<"o", "r">>, <<"n", "o", "r">>, <<"f", "o", "r">>,
      <<"s", "o">>, <<"y", "e", "t">>, <<"a", "s">>, <<"a", "t">>,
      <<"b", "y">>, <<"f", "r", "o", "m">>, <<"i", "n">>,
      <<"i", "n", "t", "o">>, <<"o", "f">>, <<"o", "n">>,
      <<"o", "n", "t", "o">>, <<"o", "v", "e", "r">>, <<"p", "e", "r">>,
      <<"t", "o">>, <<"u", "p">>, <<"v", "i", "a">>, <<"v", "s">>,
      <<"v", "s", ".">>, <<"w", "i", "t", "h">> }

UncheckedWord == <<"u", "n", "c", "h", "e", "c", "k", "e", "d">>

\* /^([^A-Za-z]*)([A-Za-z][A-Za-z']*)([^A-Za-z]*)$/ with `more` = {"'"}, and
\* the same with [A-Za-z'-]* in the second group with `more` = {"'", "-"}
tokenMatch(token, more) ==
    LET a == RunNotIn(token, 1, LetterSet)
        b == RunIn(token, a + 1, LetterSet \cup more)
        trailing == Substring(token, a + b)
    IN IF b >= 1 /\ \A k \in 1..Len(trailing) : trailing[k] \notin LetterSet
       THEN [ok |-> TRUE, leading |-> SubSeq(token, 1, a),
             word |-> SubSeq(token, a + 1, a + b), trailing |-> trailing]
       ELSE NoMatch

isWordToken(token) == tokenMatch(token, {"'"}).ok

Includes(s, c) == \E k \in 1..Len(s) : s[k] = c

\* word[0].toUpperCase() + word.substring(1)
Capitalized(word) == <<ToUpperChar(word[1])>> \o Substring(word, 1)

titleCaseMarkToken(token, minorWords, isFirstWord, isLastWord) ==
    LET hyphenMatch == tokenMatch(token, {"'", "-"})
        match == tokenMatch(token, {"'"})
        \* the tests that the two branches share, for the match m
        casedOrUnchecked(m) ==
            IF Includes(m.leading, "@") /\ ToLowerCase(m.word) = UncheckedWord
            THEN m.leading \o UncheckedWord \o m.trailing
            ELSE token
    IN IF Includes(token, "_") \/ \E k \in 1..Len(token) : token[k] \in DigitSet
       THEN token
       ELSE IF Includes(token, "-")
       THEN IF ~hyphenMatch.ok THEN token
            ELSE IF hyphenMatch.word # ToLowerCase(hyphenMatch.word)
            THEN casedOrUnchecked(hyphenMatch)
            ELSE hyphenMatch.leading \o Capitalized(hyphenMatch.word)
                    \o hyphenMatch.trailing
       ELSE IF ~match.ok THEN token
       ELSE IF match.word # ToLowerCase(match.word) THEN casedOrUnchecked(match)
       ELSE IF Includes(match.leading, "@") /\ match.word = UncheckedWord
       THEN match.leading \o match.word \o match.trailing
       ELSE IF ~isFirstWord /\ ~isLastWord /\ match.word \in minorWords
       THEN match.leading \o match.word \o match.trailing
       ELSE match.leading \o Capitalized(match.word) \o match.trailing

\* segment.split(/(\s+)/) without its empty strings: the maximal runs of
\* whitespace and of other characters, in order
RECURSIVE SplitRuns(_)
SplitRuns(s) ==
    IF Len(s) = 0 THEN <<>>
    ELSE LET n == IF IsSpace(s[1]) THEN RunIn(s, 1, SpaceSet)
                  ELSE RunNotIn(s, 1, SpaceSet)
         IN <<SubSeq(s, 1, n)>> \o SplitRuns(Substring(s, n))

RECURSIVE Concat(_)
Concat(parts) == IF Len(parts) = 0 THEN <<>> ELSE Head(parts) \o Concat(Tail(parts))

titleCaseMarkTextSegment(segment) ==
    LET parts == SplitRuns(segment)
        wordTokenIndices == {k \in 1..Len(parts) :
                                ~IsSpace(parts[k][1]) /\ isWordToken(parts[k])}
        firstWordTokenIndex ==
            IF wordTokenIndices = {} THEN -1
            ELSE CHOOSE k \in wordTokenIndices : \A j \in wordTokenIndices : k <= j
        lastWordTokenIndex ==
            IF wordTokenIndices = {} THEN -1
            ELSE CHOOSE k \in wordTokenIndices : \A j \in wordTokenIndices : k >= j
    IN Concat([idx \in 1..Len(parts) |->
                 IF IsSpace(parts[idx][1]) THEN parts[idx]
                 ELSE titleCaseMarkToken(parts[idx], MINOR_WORDS,
                                         idx = firstWordTokenIndex,
                                         idx = lastWordTokenIndex)])

\* a faulty variant of flushSegment: the text between backticks is cased too
flushSegmentAlwaysCased(input, segmentStart, endExclusive, inBackticks) ==
    IF endExclusive <= segmentStart THEN <<>>
    ELSE titleCaseMarkTextSegment(Substring2(input, segmentStart, endExclusive))

\* flushSegment(endExclusive) of titleCaseMarkTitlePreservingBackticks: the text
\* it adds to out
flushSegment(input, segmentStart, endExclusive, inBackticks) ==
    IF endExclusive <= segmentStart THEN <<>>
    ELSE LET segment == Substring2(input, segmentStart, endExclusive)
         IN IF inBackticks THEN segment ELSE titleCaseMarkTextSegment(segment)

\* the loop of titleCaseMarkTitlePreservingBackticks from index pos on
RECURSIVE titleFrom(_, _, _, _, _)
titleFrom(input, pos, inBackticks, segmentStart, out) ==
    IF pos >= Len(input)
    THEN out \o flushSegment(input, segmentStart, Len(input), inBackticks)
    ELSE IF input[pos + 1] # Backtick
    THEN titleFrom(input, pos + 1, inBackticks, segmentStart, out)
    ELSE titleFrom(input, pos + 1, ~inBackticks, pos + 1,
                   out \o flushSegment(input, segmentStart, pos, inBackticks)
                       \o <<Backtick>>)

titleCaseMarkTitlePreservingBackticks(input) ==
    IF Len(input) = 0 THEN input ELSE titleFrom(input, 0, FALSE, 0, <<>>)

\* a faulty variant of rebuiltMarkLine: the whitespace after the title is not
\* put back
rebuiltMarkLineTrimmed(match) ==
    LET afterSlashes == match.afterSlashes
        afterColonIndex == RunIn(afterSlashes, 1, SpaceSet) + 5
        afterColon == Substring(afterSlashes, afterColonIndex)
        ws == RunIn(afterColon, 1, SpaceSet)
        dashMatch == Len(afterColon) > ws /\ afterColon[ws + 1] = "-"
        dashLength == ws + 1 + RunIn(afterColon, ws + 2, SpaceSet)
        titleWithLeadingSpace ==
            IF dashMatch THEN Substring(afterColon, dashLength) ELSE afterColon
        leading == RunIn(titleWithLeadingSpace, 1, SpaceSet)
    IN match.indent \o match.slashes
          \o Substring2(afterSlashes, 0, afterColonIndex)
          \o (IF dashMatch THEN SubSeq(afterColon, 1, dashLength) ELSE <<>>)
          \o SubSeq(titleWithLeadingSpace, 1, leading)
          \o titleCaseMarkTitlePreservingBackticks(
                 TrimEnd(Substring(titleWithLeadingSpace, leading)))

\* the body of the loop of computeTitleCaseMarkCommentsReplaceEdits for a line
\* that matches markLineRegex: rebuiltLine
rebuiltMarkLine(match) ==
    LET afterSlashes == match.afterSlashes
        markIndex == RunIn(afterSlashes, 1, SpaceSet)
        afterColonIndex == markIndex + 5
        afterColon == Substring(afterSlashes, afterColonIndex)
        \* /^\s*-\s*/
        ws == RunIn(afterColon, 1, SpaceSet)
        dashMatch == Len(afterColon) > ws /\ afterColon[ws + 1] = "-"
        dashLength == ws + 1 + RunIn(afterColon, ws + 2, SpaceSet)
        structuralPrefixAfterColon ==
            IF dashMatch THEN SubSeq(afterColon, 1, dashLength) ELSE <<>>
        titleWithLeadingSpace ==
            IF dashMatch THEN Substring(afterColon, dashLength) ELSE afterColon
        leadingSpace ==
            SubSeq(titleWithLeadingSpace, 1, RunIn(titleWithLeadingSpace, 1, SpaceSet))
        titleCoreWithTrailingSpace == Substring(titleWithLeadingSpace, Len(leadingSpace))
        titleCore == TrimEnd(titleCoreWithTrailingSpace)
        trailingSpace == Substring(titleCoreWithTrailingSpace, Len(titleCore))
    IN match.indent \o match.slashes
          \o Substring2(afterSlashes, 0, afterColonIndex)
          \o structuralPrefixAfterColon \o leadingSpace
          \o titleCaseMarkTitlePreservingBackticks(titleCore) \o trailingSpace

(***************************************************************************)
(* computeTitleCaseMarkCommentsReplaceEdits, one step per iteration of its *)
(* loop over the lines; `i` is the loop variable and `edits` the result.   *)
(***************************************************************************)
TitleSkipLine ==
    /\ pc = "title"
    /\ i < Len(lines)
    /\ ~markLineMatch(lines[i + 1]).ok
    /\ i' = i + 1
    /\ UNCHANGED << args, deco, pc, edits, blockStart, blockEnd, blk >>

\* `if (rebuiltLine === line) continue;`
TitleKeepLine ==
    /\ pc = "title"
    /\ i < Len(lines)
    /\ markLineMatch(lines[i + 1]).ok
    /\ rebuiltMarkLine(markLineMatch(lines[i + 1])) = lines[i + 1]
    /\ i' = i + 1
    /\ UNCHANGED << args, deco, pc, edits, blockStart, blockEnd, blk >>

TitleEditLine ==
    /\ pc = "title"
    /\ i < Len(lines)
    /\ markLineMatch(lines[i + 1]).ok
    /\ LET rebuiltLine == rebuiltMarkLine(markLineMatch(lines[i + 1]))
       IN /\ rebuiltLine # lines[i + 1]
          /\ edits' = Append(edits, [startLine |-> i, endLine |-> i,
                                     text |-> rebuiltLine])
    /\ i' = i + 1
    /\ UNCHANGED << args, deco, pc, blockStart, blockEnd, blk >>

TitleReturn ==
    /\ pc = "title"
    /\ i >= Len(lines)
    /\ pc' = "titled"
    /\ UNCHANGED << args, deco, i, edits, blockStart, blockEnd, blk >>

NextTitle == TitleSkipLine \/ TitleKeepLine \/ TitleEditLine \/ TitleReturn

computeTitleCaseMarkCommentsReplaceEdits(ls) ==
    LET RECURSIVE from(_)
        from(k) ==
            IF k >= Len(ls) THEN <<>>
            ELSE LET match == markLineMatch(ls[k + 1])
                     rebuiltLine == rebuiltMarkLine(match)
                 IN IF match.ok /\ rebuiltLine # ls[k + 1]
                    THEN <<[startLine |-> k, endLine |-> k, text |-> rebuiltLine]>>
                            \o from(k + 1)
                    ELSE from(k + 1)
    IN from(0)

\* the longest title, in words
MaxWords == 3

\* plain words, minor words, a backtick span, a hyphenated token, tokens with
\* a digit or an underscore, tokens with capitals, punctuation
TitleWords ==
    { Chars("drag"), Chars("and"), Chars("the"),
      <<Backtick, "o", "f", Backtick>>,
      Chars("per-page"), Chars("v2"), Chars("a_b"),
      Chars("@Unchecked"), Chars("iOS"), Chars("(vs.)") }

\* how a title is set in a line: the text before it, the whitespace between
\* its words and the text after it
TitleFrames ==
    { [head |-> Chars("// MARK: - "), sep |-> <<" ">>, tail |-> <<>>],
      [head |-> Chars("\t//MARK:-\t"), sep |-> <<" ", " ">>, tail |-> <<"\t">>],
      [head |-> Chars("  // MARK: "), sep |-> <<" ">>, tail |-> <<" ">>],
      [head |-> Chars("// MARK:"), sep |-> <<" ">>, tail |-> <<>>],
      [head |-> Chars("/// MARK: - "), sep |-> <<" ">>, tail |-> <<>>] }

InitTitle ==
    /\ \E f \in TitleFrames, words \in SeqsUpTo(TitleWords, MaxWords) :
          lines = << f.head \o Join(words, f.sep) \o f.tail >>
    /\ maxLineLength = 0
    /\ wrapCountFromCommentStart = FALSE
    /\ avoidWrappingAtPunctuationBreaks = FALSE
    /\ pc = "title"
    /\ i = 0
    /\ edits = <<>>
    /\ blockStart = 0
    /\ blockEnd = 0
    /\ blk = BlockStart
    /\ deco = NoDecorations
    /\ HostIdle

SpecTitle == InitTitle /\ [][NextTitle]_vars

(***************************************************************************)
(* Vocabulary of the properties of title-casing.                           *)
(***************************************************************************)
\* the title of a MARK line: the text after MARK: and, if there is one, after
\* the separator dash
MarkTitle(line) ==
    LET afterSlashes == Substring(TrimStart(line), 2)
        afterColon == Substring(TrimStart(afterSlashes), 5)
        t == TrimStart(afterColon)
    IN IF Len(t) > 0 /\ t[1] = "-" THEN Substring(t, 1) ELSE afterColon

\* line k of the document after the edits returned so far are applied
ResultLine(k) ==
    IF \E e \in 1..Len(edits) : edits[e].startLine = k
    THEN edits[CHOOSE e \in 1..Len(edits) : edits[e].startLine = k].text
    ELSE lines[k + 1]

\* a word of lower-case letters only
IsLowerWord(w) == Len(w) > 0 /\ \A c \in 1..Len(w) : w[c] \in LowerSet

(***************************************************************************)
(* C10: in the title of a MARK line, a word of lower-case letters is       *)
(* capitalized if it is the first or the last word of the title; any other *)
(* such word stays as it is if it is in the minor-word list, and gets its  *)
(* first letter capitalized otherwise.                                     *)
(***************************************************************************)
C10_FirstLastAndMinorWords ==
    pc \in {"title", "titled"} =>
        \A k \in 0..(i - 1) :
            markLineMatch(lines[k + 1]).ok =>
                LET src == SplitWords(MarkTitle(lines[k + 1]))
                    out == SplitWords(MarkTitle(ResultLine(k)))
                    n == Len(src)
                IN /\ Len(out) = n
                   /\ \A t \in 1..n :
                         IsLowerWord(src[t]) =>
                             out[t] = IF t = 1 \/ t = n THEN Capitalized(src[t])
                                      ELSE IF src[t] \in MINOR_WORDS THEN src[t]
                                      ELSE Capitalized(src[t])

(***************************************************************************)
(* Documents of several lines for title-casing: MARK lines that change,    *)
(* MARK lines that are already cased, and lines that only look like MARK   *)
(* lines.                                                                  *)
(***************************************************************************)
TitleLines ==
    { Chars("// MARK: - drag and drop"),
      Chars("\t//MARK:-\tsection helpers\t"),
      Chars("  // MARK: Already Cased"),
      Chars("// MARK:"),
      Chars("// MARK:foo"),
      Chars("// Mark: - x"),
      Chars("/// MARK: - x"),
      Chars("let x = 1 // MARK: y"),
      Chars("// mark: z") }

InitTitleDoc ==
    /\ lines \in SeqsUpTo(TitleLines, MaxLines)
    /\ maxLineLength = 0
    /\ wrapCountFromCommentStart = FALSE
    /\ avoidWrappingAtPunctuationBreaks = FALSE
    /\ pc = "title"
    /\ i = 0
    /\ edits = <<>>
    /\ blockStart = 0
    /\ blockEnd = 0
    /\ blk = BlockStart
    /\ deco = NoDecorations
    /\ HostIdle

SpecTitleDoc == InitTitleDoc /\ [][NextTitle]_vars

\* optional whitespace, //, optional whitespace, MARK: and then whitespace, the
\* end of the line or a dash
IsMarkLineText(line) ==
    \E a \in 0..Len(line), b \in 0..Len(line) :
        /\ Len(line) >= a + 2 + b + 5
        /\ \A k \in 1..a : line[k] \in SpaceSet
        /\ line[a + 1] = "/" /\ line[a + 2] = "/"
        /\ \A k \in 1..b : line[a + 2 + k] \in SpaceSet
        /\ SubSeq(line, a + b + 3, a + b + 7) = <<"M", "A", "R", "K", ":">>
        /\ (Len(line) > a + b + 7 => line[a + b + 8] \in {" ", "\t", "-"})

(***************************************************************************)
(* C11: computeTitleCaseMarkCommentsReplaceEdits returns an edit only for  *)
(* a line that matches the MARK pattern and whose re-cased form differs    *)
(* from the line; an edit replaces one line (startLine = endLine), no line *)
(* has two edits, and a line that does not match the pattern (// MARK:foo, *)
(* // Mark: - x, /// MARK: - x) has none.                                  *)
(***************************************************************************)
C11_EditsOnlyForChangedMarkLines ==
    pc \in {"title", "titled"} =>
        /\ \A e \in 1..Len(edits) :
              /\ edits[e].startLine = edits[e].endLine
              /\ edits[e].startLine \in 0..(i - 1)
              /\ IsMarkLineText(lines[edits[e].startLine + 1])
              /\ edits[e].text # lines[edits[e].startLine + 1]
        /\ \A e, f \in 1..Len(edits) :
              e # f => edits[e].startLine # edits[f].startLine
        /\ \A k \in 0..(i - 1) :
              ~IsMarkLineText(lines[k + 1]) =>
                  \A e \in 1..Len(edits) : edits[e].startLine # k

\* a MARK line that is already cased, one that changes and a line with text
\* right after MARK: : one edit, for the second line
C11_Witness ==
    /\ pc = "titled"
    /\ lines = << Chars("  // MARK: Already Cased"),
                  Chars("// MARK: - drag and drop"),
                  Chars("// MARK:foo") >>
    /\ edits = << [startLine |-> 1, endLine |-> 1,
                   text |-> Chars("// MARK: - Drag and Drop")] >>

\* position p of the text t lies between an opening backtick and its closing
\* backtick
InsideBackticks(t, p) ==
    /\ t[p] # Backtick
    /\ Cardinality({q \in 1..(p - 1) : t[q] = Backtick}) % 2 = 1
    /\ \E q \in (p + 1)..Len(t) : t[q] = Backtick

\* the token is an @unchecked attribute in some letter case: punctuation with
\* an @, the letters of unchecked, punctuation
IsUncheckedAttribute(token) ==
    \E a \in 1..Len(token) :
        /\ Len(token) >= a + 9
        /\ \A k \in 1..a : token[k] \notin LetterSet
        /\ \E k \in 1..a : token[k] = "@"
        /\ ToLowerCase(SubSeq(token, a + 1, a + 9)) = UncheckedWord
        /\ \A k \in (a + 10)..Len(token) : token[k] \notin LetterSet

\* the same token with unchecked in lower case
WithLowerUnchecked(token) ==
    LET a == RunNotIn(token, 1, LetterSet)
    IN SubSeq(token, 1, a) \o UncheckedWord \o Substring(token, a + 9)

(***************************************************************************)
(* C12: title-casing leaves unchanged every character between backticks in *)
(* the title, every token (outside backticks) that has a digit or an       *)
(* underscore and every token that has an upper-case letter already,       *)
(* except that an @unchecked attribute in any letter case becomes          *)
(* @unchecked.  Letters are the ASCII letters.                             *)
(***************************************************************************)
C12_BackticksIdentifiersAndCapitalsKept ==
    pc \in {"title", "titled"} =>
        \A k \in 0..(i - 1) :
            markLineMatch(lines[k + 1]).ok =>
                LET title == MarkTitle(lines[k + 1])
                    cased == MarkTitle(ResultLine(k))
                    src == SplitWords(title)
                    out == SplitWords(cased)
                IN /\ Len(cased) = Len(title)
                   /\ \A p \in 1..Len(title) :
                         InsideBackticks(title, p) => cased[p] = title[p]
                   /\ Len(out) = Len(src)
                   /\ \A t \in 1..Len(src) :
                         ( /\ ~Includes(src[t], Backtick)
                           /\ \E c \in 1..Len(src[t]) :
                                 src[t][c] \in DigitSet \cup {"_"} \cup UpperSet )
                         => out[t] = IF IsUncheckedAttribute(src[t])
                                     THEN WithLowerUnchecked(src[t])
                                     ELSE src[t]

\* a minor word between backticks, an identifier with an underscore and an
\* attribute: only the attribute changes
C12_Witness ==
    /\ pc = "titled"
    /\ lines = << Chars("// MARK: - ") \o <<Backtick, "o", "f", Backtick>>
                     \o Chars(" a_b @Unchecked") >>
    /\ Len(edits) = 1
    /\ edits[1].text = Chars("// MARK: - ") \o <<Backtick, "o", "f", Backtick>>
                          \o Chars(" a_b @unchecked")

(***************************************************************************)
(* decorator.ts: the parsing functions and the passes of applyDecorations. *)
(* A range lies on one line: [line, start, end) in 0-based columns.        *)
(***************************************************************************)
Quote == "\""
Backslash == "\\"
TripleQuote == <<"\"", "\"", "\"">>

\* a faulty variant of Range: the end column belongs to the range
RangeClosed(lineNum, startCol, endCol) == [line |-> lineNum, start |-> startCol, end |-> endCol + 1]

Range(lineNum, startCol, endCol) == [line |-> lineNum, start |-> startCol, end |-> endCol]

\* a faulty variant of findSwiftLineCommentStart: the first // of the line,
\* string literal or not
RECURSIVE findFirstSlashes(_)
findFirstSlashes(text) ==
    IF Len(text) < 2 THEN -1
    ELSE IF text[1] = "/" /\ text[2] = "/" THEN 0
    ELSE LET rest == findFirstSlashes(Tail(text))
         IN IF rest = -1 THEN -1 ELSE rest + 1

\* the loop of findSwiftLineCommentStart from index pos on (0-based), with
\* its three flags; -1 is null
RECURSIVE scanCommentStart(_, _, _, _, _)
scanCommentStart(text, pos, inString, rawHashes, isTripleQuote) ==
    IF pos >= Len(text) - 1 THEN -1
    ELSE IF ~inString THEN
        LET h == RunIn(text, pos + 1, {"#"})
            quotePos == pos + h
            tripleAt(q) == Substring2(text, q, q + 3) = TripleQuote
        IN IF text[pos + 1] = "#" /\ quotePos < Len(text) /\ text[quotePos + 1] = Quote
           THEN scanCommentStart(text, quotePos + (IF tripleAt(quotePos) THEN 2 ELSE 0) + 1,
                                 TRUE, h, tripleAt(quotePos))
           ELSE IF text[pos + 1] = Quote
           THEN scanCommentStart(text, pos + (IF tripleAt(pos) THEN 2 ELSE 0) + 1,
                                 TRUE, 0, tripleAt(pos))
           ELSE IF text[pos + 1] = "/" /\ text[pos + 2] = "/" THEN pos
           ELSE scanCommentStart(text, pos + 1, FALSE, rawHashes, isTripleQuote)
    ELSE IF rawHashes = 0 /\ text[pos + 1] = Backslash
    THEN scanCommentStart(text, pos + 2, TRUE, rawHashes, isTripleQuote)
    ELSE LET closes == IF isTripleQuote
                       THEN Substring2(text, pos, pos + 3) = TripleQuote
                       ELSE text[pos + 1] = Quote
             j == pos + (IF isTripleQuote THEN 3 ELSE 1)
             run == RunIn(text, j + 1, {"#"})
             k == IF run < rawHashes THEN run ELSE rawHashes
         IN IF closes /\ k = rawHashes
            THEN scanCommentStart(text, j + k, FALSE, 0, FALSE)
            ELSE scanCommentStart(text, pos + 1, TRUE, rawHashes, isTripleQuote)

findSwiftLineCommentStart(text) == scanCommentStart(text, 0, FALSE, 0, FALSE)

(***************************************************************************)
(* applyDecorations, the caps-label pass: a bold range for an all-caps     *)
(* label and one for its colon, in any line comment that is not a MARK     *)
(* line.  markLineRegex of decorator.ts is the expression of               *)
(* commentCommands.ts, modelled by markLineMatch.                          *)
(***************************************************************************)
\* column after the comment prefix found at commentStart
afterPrefixStart(text, commentStart) ==
    LET isDocPrefix == commentStart + 2 < Len(text) /\ text[commentStart + 3] = "/"
    IN commentStart + (IF isDocPrefix THEN 3 ELSE 2)

\* the label found on the line, NoMatch when one of the loop's tests skips it
capsLabelOf(text) ==
    LET commentStart == findSwiftLineCommentStart(text)
        after == afterPrefixStart(text, commentStart)
    IN IF markLineMatch(text).ok THEN NoMatch
       ELSE IF commentStart = -1 THEN NoMatch
       ELSE IF after >= Len(text) THEN NoMatch
       ELSE findLeadingCapsLabel(Substring(text, after))

CapsSkipLine ==
    /\ pc = "caps"
    /\ i < Len(lines)
    /\ ~capsLabelOf(lines[i + 1]).ok
    /\ i' = i + 1
    /\ UNCHANGED << args, pc, edits, blockStart, blockEnd, blk, deco >>

CapsLabelLine ==
    /\ pc = "caps"
    /\ i < Len(lines)
    /\ LET text == lines[i + 1]
           match == capsLabelOf(text)
           after == afterPrefixStart(text, findSwiftLineCommentStart(text))
       IN /\ match.ok
          /\ deco' = [deco EXCEPT !.capsLabelRanges =
                 @ \o << Range(i, after + match.labelStart, after + match.labelEnd),
                         Range(i, after + match.colonIndex, after + match.colonIndex + 1) >>]
    /\ i' = i + 1
    /\ UNCHANGED << args, pc, edits, blockStart, blockEnd, blk >>

CapsDone ==
    /\ pc = "caps"
    /\ i = Len(lines)
    /\ pc' = "capsDone"
    /\ UNCHANGED << args, i, edits, blockStart, blockEnd, blk, deco >>

NextCaps == CapsSkipLine \/ CapsLabelLine \/ CapsDone

\* the most lines of a document handed to applyDecorations
MaxDecoLines == 2

\* lines of code with string literals of each kind, with and without a comment
CodeTexts ==
    { Chars("let s = \"http://example.com\" // TODO: x"),
      Chars("\"a\\\"//b\" // NOTE: c"),
      Chars("#\"a\"//\"# // c"),
      Chars("##\"a\"#//\"## //D:"),
      Chars("\"\"\"//\"\"\" // d"),
      Chars("#\"\"\"a\"//\"\"\"# // E1 :"),
      Chars("\"abc // d"),
      Chars("x = 1"),
      Chars("// NOTE: top"),
      Chars("#if x // c"),
      Chars("\"\\\\\" // WARNING : e"),
      Chars("#\"\\\"# // f"),
      Chars("\"\" /// J: k"),
      Chars("// MARK: - NOTE: g"),
      Chars("\t/// TODO: h"),
      Chars("x //") }

InitDeco(texts, maxLines, start) ==
    /\ lines \in SeqsUpTo(texts, maxLines)
    /\ maxLineLength = 0
    /\ wrapCountFromCommentStart = FALSE
    /\ avoidWrappingAtPunctuationBreaks = FALSE
    /\ pc = start
    /\ i = 0
    /\ edits = <<>>
    /\ blockStart = 0
    /\ blockEnd = 0
    /\ blk = BlockStart
    /\ deco = NoDecorations
    /\ HostIdle

InitCaps == InitDeco(CodeTexts, MaxDecoLines, "caps")

SpecCaps == InitCaps /\ [][NextCaps]_vars

\* the position q of the text closes a literal opened with h hashes: one or
\* three quotes and then h hashes
ClosesAt(text, q, h, triple) ==
    LET n == IF triple THEN 3 ELSE 1
    IN /\ q + n + h - 1 <= Len(text)
       /\ \A k \in 0..(n - 1) : text[q + k] = Quote
       /\ \A k \in 0..(h - 1) : text[q + n + k] = "#"

\* an odd number of backslashes of the literal's content stands right before q
EscapedIn(text, q, contentStart) ==
    RunInBack(SubSeq(text, contentStart, q - 1), q - contentStart, {Backslash}) % 2 = 1

\* first position after the literal whose content starts at contentStart; the
\* literal takes the rest of the line when nothing closes it
LiteralEnd(text, contentStart, h, triple) ==
    LET closers == { q \in contentStart..Len(text) :
                        /\ ClosesAt(text, q, h, triple)
                        /\ h > 0 \/ ~EscapedIn(text, q, contentStart) }
        first == CHOOSE q \in closers : \A r \in closers : q <= r
    IN IF closers = {} THEN Len(text) + 1
       ELSE first + (IF triple THEN 3 ELSE 1) + h

\* 0-based column of the first // at or after position p that no string
\* literal holds, -1 when there is none; p lies outside every literal
RECURSIVE FirstCommentOutsideStrings(_, _)
FirstCommentOutsideStrings(text, p) ==
    IF p >= Len(text) THEN -1
    ELSE LET h == RunIn(text, p, {"#"})
             q == p + h
         IN IF q <= Len(text) /\ text[q] = Quote
            THEN LET triple == SubSeq(text, q, q + 2) = TripleQuote
                 IN FirstCommentOutsideStrings(
                        text, LiteralEnd(text, q + (IF triple THEN 3 ELSE 1), h, triple))
            ELSE IF text[p] = "/" /\ text[p + 1] = "/" THEN p - 1
            ELSE FirstCommentOutsideStrings(text, p + 1)

(***************************************************************************)
(* C13: for every line, findSwiftLineCommentStart is the column of the     *)
(* first // that lies in no string literal (normal with backslash escapes, *)
(* raw with its number of hashes and no escapes, or triple-quoted), and    *)
(* none when there is no such //.                                          *)
(***************************************************************************)
C13_CommentStartOutsideStrings ==
    pc \in {"caps", "capsDone"} =>
        \A k \in 1..i :
            findSwiftLineCommentStart(lines[k]) = FirstCommentOutsideStrings(lines[k], 1)

\* the line of the specification: the // of the URL is not the comment start,
\* and the label of the trailing comment is found behind the real one
C13_Witness ==
    /\ pc = "capsDone"
    /\ lines = << Chars("let s = \"http://example.com\" // TODO: x") >>
    /\ findSwiftLineCommentStart(lines[1]) = 29
    /\ deco.capsLabelRanges = << Range(0, 32, 36), Range(0, 36, 37) >>

(***************************************************************************)
(* decorator.ts: parseDocBlock, tryParseDocTag and tokenizeInlineSegments. *)
(* singleParamRegex, keywordLineRegex and KNOWN_TAGS of decorator.ts are   *)
(* the expressions and the set of commentCommands.ts, modelled by          *)
(* docTagSingleParamMatch, docTagLineMatch and KNOWN_DOC_TAGS.             *)
(***************************************************************************)
\* docLineRegex /^(\s*)(\/\/\/)(.*)?$/
docLineMatch(text) ==
    LET n == RunIn(text, 1, SpaceSet)
    IN IF StartsWith(Substring(text, n), DocPrefix)
       THEN [ok |-> TRUE, indent |-> n, afterSlash |-> Substring(text, n + 3)]
       ELSE NoMatch

\* ranges.push(range) on one of the range lists of out
pushRange(out, list, range) == [out EXCEPT ![list] = Append(@, range)]

\* a faulty variant of isEscapedAt: any backslash escapes
isEscapedAtAny(text, index) == RunInBack(text, index, {Backslash}) > 0

\* an odd number of backslashes stands right before the 0-based index
isEscapedAt(text, index) == RunInBack(text, index, {Backslash}) % 2 = 1

matchEmphasisMarker(text, index) ==
    LET ch == text[index + 1]
        run == RunIn(text, index + 1, {ch})
        len == IF run < 3 THEN run ELSE 3
        prevIsWord == index > 0 /\ text[index] \in LetterSet \cup DigitSet
        nextIsWord == index + len < Len(text) /\ text[index + len + 1] \in LetterSet \cup DigitSet
    IN IF ch \notin {"*", "_"} THEN NoMatch
       ELSE IF isEscapedAt(text, index) THEN NoMatch
       ELSE IF ch = "_" /\ prevIsWord /\ nextIsWord THEN NoMatch
       ELSE [ok |-> TRUE, marker |-> Rep(ch, len), length |-> len,
             addsBold |-> len >= 2, addsItalic |-> len # 2]

\* a faulty variant of toggleEmphasis: a marker always opens
toggleEmphasisPushOnly(emphasisStack, marker) ==
    Append(emphasisStack, [marker |-> marker.marker, addsBold |-> marker.addsBold,
                           addsItalic |-> marker.addsItalic])

toggleEmphasis(emphasisStack, marker) ==
    IF Len(emphasisStack) > 0 /\ emphasisStack[Len(emphasisStack)].marker = marker.marker
    THEN SubSeq(emphasisStack, 1, Len(emphasisStack) - 1)
    ELSE Append(emphasisStack, [marker |-> marker.marker, addsBold |-> marker.addsBold,
                                addsItalic |-> marker.addsItalic])

currentEmphasisKind(emphasisStack) ==
    LET bold == \E k \in 1..Len(emphasisStack) : emphasisStack[k].addsBold
        italic == \E k \in 1..Len(emphasisStack) : emphasisStack[k].addsItalic
    IN IF bold /\ italic THEN "boldItalic"
       ELSE IF bold THEN "bold"
       ELSE IF italic THEN "italic"
       ELSE "text"

\* flushRun(endExclusive) of the segment seg, in the tokenizer state st
flushRun(st, seg, runStart, endExclusive) ==
    LET range == Range(seg.lineNum, seg.startCol + runStart, seg.startCol + endExclusive)
        kind == currentEmphasisKind(st.emphasisStack)
        list == IF st.inBacktickCode THEN "codeRanges"
                ELSE IF kind = "boldItalic" THEN "boldItalicRanges"
                ELSE IF kind = "bold" THEN "boldRanges"
                ELSE IF kind = "italic" THEN "italicRanges"
                ELSE "textRanges"
    IN IF endExclusive <= runStart THEN st
       ELSE [st EXCEPT !.out = pushRange(@, list, range)]

\* the run before a delimiter is flushed and the delimiter gets its range
flushAndMark(st, seg, runStart, pos, length) ==
    [flushRun(st, seg, runStart, pos) EXCEPT !.out =
        pushRange(@, "markdownMarkerRanges",
                  Range(seg.lineNum, seg.startCol + pos, seg.startCol + pos + length))]

\* the while loop over one segment and the flush after it
RECURSIVE tokenizeSegment(_, _, _, _)
tokenizeSegment(st, seg, pos, runStart) ==
    IF pos >= Len(seg.text) THEN flushRun(st, seg, runStart, Len(seg.text))
    ELSE IF seg.text[pos + 1] = Backtick /\ ~isEscapedAt(seg.text, pos)
    THEN tokenizeSegment([flushAndMark(st, seg, runStart, pos, 1)
                             EXCEPT !.inBacktickCode = ~@],
                         seg, pos + 1, pos + 1)
    ELSE LET marker == matchEmphasisMarker(seg.text, pos)
         IN IF ~st.inBacktickCode /\ marker.ok
            THEN tokenizeSegment([flushAndMark(st, seg, runStart, pos, marker.length)
                                     EXCEPT !.emphasisStack = toggleEmphasis(@, marker)],
                                 seg, pos + marker.length, pos + marker.length)
            ELSE tokenizeSegment(st, seg, pos + 1, runStart)

\* the for loop over the segments from the n-th on
RECURSIVE tokenizeFrom(_, _, _)
tokenizeFrom(st, segments, n) ==
    IF n > Len(segments) THEN st
    ELSE tokenizeFrom(tokenizeSegment(st, segments[n], 0, 0), segments, n + 1)

\* the tokenizer state at the end: the two flags and the range lists
tokenizeInlineSegments(segments, out) ==
    tokenizeFrom([inBacktickCode |-> FALSE, emphasisStack |-> <<>>, out |-> out],
                 segments, 1)

InlineSegment(lineNum, startCol, text) ==
    IF Len(text) > 0
    THEN << [lineNum |-> lineNum, startCol |-> startCol, text |-> text] >>
    ELSE << >>

\* the ranges of a doc keyword line matched as m (by singleParamRegex when
\* isParam, else by keywordLineRegex): three indent ranges, the keyword or
\* name range, and the description segment
docTagRanges(m, isParam, text, lineNum, offset, out) ==
    LET prefix == Len(m.listPrefixText)
        keyword == IF isParam THEN Len(ParameterWord) ELSE 0
        space == IF isParam THEN RunIn(text, prefix + keyword + 1, SpaceSet) ELSE 0
        word == RunIn(text, prefix + keyword + space + 1, WordSet)
        c1 == offset + prefix
        c2 == c1 + keyword
        c3 == c2 + space
        c4 == c3 + word
        c5 == offset + Len(m.keywordPrefixText)
        isKnownTag == m.tagWordLower \in KNOWN_DOC_TAGS
        o1 == pushRange(out, "indentRanges", Range(lineNum, offset, c1))
        o2 == IF isParam
              THEN pushRange(pushRange(o1, "keywordRanges", Range(lineNum, c1, c2)),
                             "indentRanges", Range(lineNum, c2, c3))
              ELSE o1
        o3 == IF isParam \/ ~isKnownTag
              THEN pushRange(o2, "codeRanges", Range(lineNum, c3, c4))
              ELSE pushRange(o2, "keywordRanges", Range(lineNum, c3, c4))
    IN [parsed |-> TRUE,
        out |-> pushRange(o3, "indentRanges", Range(lineNum, c4, c5)),
        inlineSegments |-> InlineSegment(lineNum, c5, m.description)]

\* parsed is FALSE when neither form matches
tryParseDocTag(text, lineNum, offset, out) ==
    LET spMatch == docTagSingleParamMatch(text)
        keywordMatch == docTagLineMatch(text)
    IN IF spMatch.ok THEN docTagRanges(spMatch, TRUE, text, lineNum, offset, out)
       ELSE IF keywordMatch.ok
       THEN docTagRanges(keywordMatch, FALSE, text, lineNum, offset, out)
       ELSE [parsed |-> FALSE, out |-> out, inlineSegments |-> << >>]

\* the ranges of a doc line after its slashes: o1 holds the slash range and
\* tag is what tryParseDocTag made of the text after the slashes
docLineRanges(acc, lineNum, slashEnd, afterSlash, o1, tag) ==
    LET ls == RunIn(afterSlash, 1, SpaceSet)
    IN IF Len(afterSlash) = 0 THEN [acc EXCEPT !.out = o1]
       ELSE IF tag.parsed
       THEN [out |-> tag.out, inlineSegments |-> acc.inlineSegments \o tag.inlineSegments]
       ELSE IF ls > 0
       THEN [out |-> pushRange(o1, "indentRanges", Range(lineNum, slashEnd, slashEnd + ls)),
             inlineSegments |-> acc.inlineSegments
                 \o InlineSegment(lineNum, slashEnd + ls, Substring(afterSlash, ls))]
       ELSE [out |-> o1,
             inlineSegments |-> acc.inlineSegments
                 \o InlineSegment(lineNum, slashEnd, afterSlash)]

docLineSlashes(acc, lineNum, slashEnd, afterSlash, o1) ==
    docLineRanges(acc, lineNum, slashEnd, afterSlash, o1,
                  tryParseDocTag(afterSlash, lineNum, slashEnd, o1))

\* one pass of the for loop of parseDocBlock: the line numbered lineNum
parseDocLine(acc, lineNum, text) ==
    LET match == docLineMatch(text)
    IN IF ~match.ok THEN acc
       ELSE docLineSlashes(acc, lineNum, match.indent + 3, match.afterSlash,
                           pushRange(acc.out, "slashRanges",
                                     Range(lineNum, match.indent, match.indent + 3)))

\* the lines first .. first + count - 1 of the document (0-based), parsed
RECURSIVE parseDocLines(_, _, _, _)
parseDocLines(ls, first, count, acc) ==
    IF count = 0 THEN acc
    ELSE parseDocLines(ls, first + 1, count - 1, parseDocLine(acc, first, ls[first + 1]))

\* the tokenizer state after the block; its field out holds the range lists
\* parseDocBlock returns
parseDocBlock(ls, first, count) ==
    LET parsed == parseDocLines(ls, first, count, [out |-> NoDecorations, inlineSegments |-> << >>])
    IN tokenizeInlineSegments(parsed.inlineSegments, parsed.out)

\* number of consecutive doc comment lines from the 0-based line first on
RECURSIVE docBlockLength(_, _)
docBlockLength(ls, first) ==
    IF first >= Len(ls) \/ ~docLineMatch(ls[first + 1]).ok THEN 0
    ELSE 1 + docBlockLength(ls, first + 1)

DocSkipLine ==
    /\ pc = "doc"
    /\ i < Len(lines)
    /\ ~docLineMatch(lines[i + 1]).ok
    /\ i' = i + 1
    /\ UNCHANGED << args, pc, edits, blockStart, blockEnd, blk, deco >>

\* one block: its ranges are pushed onto the lists of applyDecorations
DocBlock ==
    /\ pc = "doc"
    /\ i < Len(lines)
    /\ docLineMatch(lines[i + 1]).ok
    /\ LET n == docBlockLength(lines, i)
           block == parseDocBlock(lines, i, n).out
       IN /\ deco' = [list \in DOMAIN deco |-> deco[list] \o block[list]]
          /\ i' = i + n
    /\ UNCHANGED << args, pc, edits, blockStart, blockEnd, blk >>

DocDone ==
    /\ pc = "doc"
    /\ i = Len(lines)
    /\ pc' = "docDone"
    /\ UNCHANGED << args, i, edits, blockStart, blockEnd, blk, deco >>

NextDoc == DocSkipLine \/ DocBlock \/ DocDone

\* doc comment lines with paired, nested, escaped and unterminated
\* delimiters, doc keywords and structural indent, and a line of code
DocTexts ==
    { Chars("/// **bold *and italic* still bold**"),
      Chars("/// open ") \o <<Backtick>> \o Chars("co*de"),
      Chars("/// more") \o <<Backtick>> \o Chars(" _done_"),
      Chars("///   *it"),
      Chars("/// - Parameter p: see ") \o <<Backtick, "x", Backtick>> \o Chars(" now"),
      Chars("\t/// - Returns: __b__ a_b"),
      Chars("  ///  - foo : \\") \o <<Backtick>> \o Chars("lit \\*e*"),
      Chars("///"),
      Chars("/// - parameter  q_1:"),
      Chars("///***bi***"),
      Chars("let x = 1") }

InitDoc == InitDeco(DocTexts, MaxDecoLines, "doc")

SpecDoc == InitDoc /\ [][NextDoc]_vars

(***************************************************************************)
(* Vocabulary of the claims about the doc-block pass.                      *)
(***************************************************************************)
\* the ranges of a list as a set
RangeSet(list) == { deco[list][n] : n \in 1..Len(deco[list]) }

\* the range r starts at or after the end of the range q
After(r, q) == r.line > q.line \/ (r.line = q.line /\ r.start >= q.end)

\* the lines from a to b (0-based) are doc comment lines, so one block
SameDocBlock(a, b) == \A l \in a..b : docLineMatch(lines[l + 1]).ok

\* the delimiter ranges whose first character lies in the set delims
Delimiters(delims) ==
    { m \in RangeSet("markdownMarkerRanges") : lines[m.line + 1][m.start + 1] \in delims }

\* the range r lies between two delimiters of the set delims in its block
BetweenDelimiters(r, delims) ==
    /\ \E m \in Delimiters(delims) : After(r, m) /\ SameDocBlock(m.line, r.line)
    /\ \E m \in Delimiters(delims) : After(m, r) /\ SameDocBlock(r.line, m.line)

\* the code range of a parameter name or unknown tag word: it stands between
\* two structural indent ranges
IsNameRange(r) ==
    /\ \E q \in RangeSet("indentRanges") : q.line = r.line /\ q.end = r.start
    /\ \E q \in RangeSet("indentRanges") : q.line = r.line /\ q.start = r.end

(***************************************************************************)
(* C14: in a doc block only paired delimiters give styled spans: every     *)
(* inline-code span lies between an opening and a closing backtick of its  *)
(* block, every bold, italic or bold-italic span between an opening and a  *)
(* closing emphasis marker of its block; text after a delimiter that is    *)
(* still open at the end of the block gets no such span.                   *)
(***************************************************************************)
C14_OnlyPairedDelimitersStyled ==
    pc \in {"doc", "docDone"} =>
        /\ \A r \in RangeSet("codeRanges") :
              IsNameRange(r) \/ BetweenDelimiters(r, {Backtick})
        /\ \A r \in RangeSet("boldRanges") \cup RangeSet("italicRanges")
                        \cup RangeSet("boldItalicRanges") :
              BetweenDelimiters(r, {"*", "_"})

NestedLine == Chars("/// **bold *and italic* still bold**")

\* the line k (0-based) holds the nested example and starts a doc block that
\* has been parsed
NestedExampleAt(k) ==
    /\ k < i
    /\ lines[k + 1] = NestedLine
    /\ k > 0 => ~docLineMatch(lines[k]).ok

OnLine(list, k) == { r \in RangeSet(list) : r.line = k }

(***************************************************************************)
(* C15 as stated: tokenizing  **bold *and italic* still bold**  yields one *)
(* bold span and one bold-italic span nested in it, and no plain-text span *)
(* between the outer ** markers.                                           *)
(***************************************************************************)
C15_OneBoldSpanWithNestedBoldItalic ==
    pc \in {"doc", "docDone"} =>
        \A k \in 0..(Len(lines) - 1) :
            NestedExampleAt(k) =>
                /\ Cardinality(OnLine("boldRanges", k)) = 1
                /\ Cardinality(OnLine("boldItalicRanges", k)) = 1
                /\ \A b \in OnLine("boldRanges", k), n \in OnLine("boldItalicRanges", k) :
                      b.start <= n.start /\ n.end <= b.end
                /\ OnLine("textRanges", k) = {}

(***************************************************************************)
(* C15, amended: tokenizing  **bold *and italic* still bold**  yields one  *)
(* bold-italic span for the text between the inner * markers and two bold  *)
(* spans, for the text before and the text after it; the three spans and   *)
(* the two inner markers cover everything between the outer ** markers,    *)
(* and no plain-text span lies there.                                      *)
(***************************************************************************)
C15_BoldAroundNestedBoldItalic ==
    pc \in {"doc", "docDone"} =>
        \A k \in 0..(Len(lines) - 1) :
            NestedExampleAt(k) =>
                /\ OnLine("boldItalicRanges", k) = { Range(k, 12, 22) }
                /\ OnLine("boldRanges", k) = { Range(k, 6, 11), Range(k, 23, 34) }
                /\ OnLine("markdownMarkerRanges", k) =
                      { Range(k, 4, 6), Range(k, 11, 12), Range(k, 22, 23), Range(k, 34, 36) }
                /\ OnLine("textRanges", k) = {}
                /\ OnLine("italicRanges", k) = {}
                /\ OnLine("codeRanges", k) = {}

C15_Witness ==
    /\ pc = "docDone"
    /\ lines = << Chars("let x = 1"), NestedLine >>
    /\ deco.boldRanges = << Range(1, 6, 11), Range(1, 23, 34) >>
    /\ deco.boldItalicRanges = << Range(1, 12, 22) >>

\* the lists of doc-block classification
DocLists ==
    { "slashRanges", "indentRanges", "keywordRanges", "codeRanges", "textRanges",
      "boldRanges", "italicRanges", "boldItalicRanges", "markdownMarkerRanges" }

\* every span of the doc-block lists, with its list and its place in it
DocSpans ==
    UNION { { [list |-> l, n |-> n, range |-> deco[l][n]] : n \in 1..Len(deco[l]) } :
            l \in DocLists }

(***************************************************************************)
(* C17: the spans of doc-block classification (slash marker, structural    *)
(* indent, doc keyword, inline code, plain text, bold, italic, bold-italic *)
(* and markdown delimiter) never overlap: no column of a line lies in two  *)
(* of them.                                                                *)
(***************************************************************************)
C17_DocSpansDisjoint ==
    pc \in {"doc", "docDone"} =>
        \A a, b \in DocSpans :
            (a # b /\ a.range.line = b.range.line) =>
                (a.range.end <= b.range.start \/ b.range.end <= a.range.start)

\* a keyword line with every structural span, inline code and plain text, then
\* a line with emphasis
C17_Witness ==
    /\ pc = "docDone"
    /\ Len(lines) = 2
    /\ Len(deco.keywordRanges) = 2
    /\ Len(deco.indentRanges) = 5
    /\ Len(deco.codeRanges) = 2
    /\ Len(deco.boldRanges) = 1
    /\ Len(deco.markdownMarkerRanges) = 4
    /\ Len(deco.textRanges) = 3

(***************************************************************************)
(* applyDecorations, the pass that colours inline code in regular //       *)
(* comments (with codeColor and colorInlineCodeInRegularComments set).     *)
(* firstNonWhitespaceIndex of decorator.ts is the function of              *)
(* commentCommands.ts of the same name.                                    *)
(***************************************************************************)
\* indent and comment text segment of a full-line // comment; NoMatch is null
tryParseFullLineCommentSegment(ls, lineNum) ==
    LET text == ls[lineNum + 1]
        firstNonWs == firstNonWhitespaceIndex(text)
        rest == Substring(text, firstNonWs)
    IN IF docLineMatch(text).ok THEN NoMatch
       ELSE IF markLineMatch(text).ok THEN NoMatch
       ELSE IF firstNonWs = -1 THEN NoMatch
       ELSE IF ~StartsWith(rest, LinePrefix) THEN NoMatch
       ELSE IF StartsWith(rest, DocPrefix) THEN NoMatch
       ELSE [ok |-> TRUE,
             indent |-> Substring2(text, 0, firstNonWs),
             segment |-> [lineNum |-> lineNum, baseCol |-> firstNonWs + 2,
                          text |-> Substring(text, firstNonWs + 2)]]

\* the loop of extractBacktickInnerRanges from index pos on
RECURSIVE innerRangesFrom(_, _, _, _, _, _, _)
innerRangesFrom(lineNum, baseCol, commentText, pos, inBacktick, innerStart, ranges) ==
    IF pos >= Len(commentText) THEN ranges
    ELSE IF commentText[pos + 1] # Backtick \/ isEscapedAt(commentText, pos)
    THEN innerRangesFrom(lineNum, baseCol, commentText, pos + 1, inBacktick, innerStart, ranges)
    ELSE IF ~inBacktick
    THEN innerRangesFrom(lineNum, baseCol, commentText, pos + 1, TRUE, pos + 1, ranges)
    ELSE innerRangesFrom(lineNum, baseCol, commentText, pos + 1, FALSE, -1,
                         IF pos > innerStart
                         THEN Append(ranges, Range(lineNum, baseCol + innerStart, baseCol + pos))
                         ELSE ranges)

extractBacktickInnerRanges(lineNum, baseCol, commentText) ==
    innerRangesFrom(lineNum, baseCol, commentText, 0, FALSE, -1, << >>)

\* a faulty variant of acrossSegment: the remainder of a line with an open
\* span is committed at once
RECURSIVE acrossSegmentEager(_, _, _, _)
acrossSegmentEager(st, seg, pos, innerStart) ==
    IF pos >= Len(seg.text)
    THEN IF st.inBacktick /\ Len(seg.text) > innerStart
         THEN [st EXCEPT !.committed =
                  Append(@, Range(seg.lineNum, seg.baseCol + innerStart,
                                  seg.baseCol + Len(seg.text)))]
         ELSE st
    ELSE IF seg.text[pos + 1] # Backtick \/ isEscapedAt(seg.text, pos)
    THEN acrossSegmentEager(st, seg, pos + 1, innerStart)
    ELSE IF ~st.inBacktick
    THEN acrossSegmentEager([st EXCEPT !.inBacktick = TRUE], seg, pos + 1, pos + 1)
    ELSE acrossSegmentEager(
             [st EXCEPT !.inBacktick = FALSE,
                        !.committed = IF pos > innerStart
                                      THEN Append(@, Range(seg.lineNum, seg.baseCol + innerStart,
                                                           seg.baseCol + pos))
                                      ELSE @],
             seg, pos + 1, 0)

\* the inner loop of extractBacktickInnerRangesAcrossSegments over one
\* segment, and the buffering of the remainder of the line after it
RECURSIVE acrossSegment(_, _, _, _)
acrossSegment(st, seg, pos, innerStart) ==
    IF pos >= Len(seg.text)
    THEN IF st.inBacktick /\ Len(seg.text) > innerStart
         THEN [st EXCEPT !.pendingSpanRanges =
                  Append(@, Range(seg.lineNum, seg.baseCol + innerStart,
                                  seg.baseCol + Len(seg.text)))]
         ELSE st
    ELSE IF seg.text[pos + 1] # Backtick \/ isEscapedAt(seg.text, pos)
    THEN acrossSegment(st, seg, pos + 1, innerStart)
    ELSE IF ~st.inBacktick
    THEN acrossSegment([st EXCEPT !.inBacktick = TRUE, !.pendingSpanRanges = << >>],
                       seg, pos + 1, pos + 1)
    ELSE acrossSegment(
             [inBacktick |-> FALSE,
              pendingSpanRanges |-> << >>,
              committed |-> st.committed \o st.pendingSpanRanges
                  \o (IF pos > innerStart
                      THEN << Range(seg.lineNum, seg.baseCol + innerStart, seg.baseCol + pos) >>
                      ELSE << >>)],
             seg, pos + 1, 0)

\* the for loop over the segments from the n-th on
RECURSIVE acrossFrom(_, _, _)
acrossFrom(st, segments, n) ==
    IF n > Len(segments) THEN st
    ELSE acrossFrom(acrossSegment(st, segments[n], 0, 0), segments, n + 1)

extractBacktickInnerRangesAcrossSegments(segments) ==
    acrossFrom([inBacktick |-> FALSE, pendingSpanRanges |-> << >>, committed |-> << >>],
               segments, 1).committed

\* the segments of the block of full-line comments that starts at line first:
\* the lines from j on that parse and have the indent blockIndent
RECURSIVE blockSegments(_, _, _)
blockSegments(ls, j, blockIndent) ==
    IF j >= Len(ls) THEN << >>
    ELSE LET next == tryParseFullLineCommentSegment(ls, j)
         IN IF ~next.ok \/ next.indent # blockIndent THEN << >>
            ELSE << next.segment >> \o blockSegments(ls, j + 1, blockIndent)

\* a block of full-line comments: backticks are paired across its lines
RegularBlock ==
    /\ pc = "regular"
    /\ i < Len(lines)
    /\ LET firstSeg == tryParseFullLineCommentSegment(lines, i)
       IN /\ firstSeg.ok
          /\ LET segments == << firstSeg.segment >>
                                 \o blockSegments(lines, i + 1, firstSeg.indent)
             IN /\ deco' = [deco EXCEPT !.regularCommentInlineCodeColorRanges =
                               @ \o extractBacktickInnerRangesAcrossSegments(segments)]
                /\ i' = i + Len(segments)
    /\ UNCHANGED << args, pc, edits, blockStart, blockEnd, blk >>

\* the line has a trailing comment with text the line-local pass colours
hasTrailingComment(text) ==
    /\ ~docLineMatch(text).ok
    /\ ~markLineMatch(text).ok
    /\ findSwiftLineCommentStart(text) # -1
    /\ findSwiftLineCommentStart(text) + 2 < Len(text)

RegularSkipLine ==
    /\ pc = "regular"
    /\ i < Len(lines)
    /\ ~tryParseFullLineCommentSegment(lines, i).ok
    /\ ~hasTrailingComment(lines[i + 1])
    /\ i' = i + 1
    /\ UNCHANGED << args, pc, edits, blockStart, blockEnd, blk, deco >>

RegularTrailing ==
    /\ pc = "regular"
    /\ i < Len(lines)
    /\ ~tryParseFullLineCommentSegment(lines, i).ok
    /\ hasTrailingComment(lines[i + 1])
    /\ LET commentTextStartCol == findSwiftLineCommentStart(lines[i + 1]) + 2
       IN deco' = [deco EXCEPT !.regularCommentInlineCodeColorRanges =
                      @ \o extractBacktickInnerRanges(i, commentTextStartCol,
                               Substring(lines[i + 1], commentTextStartCol))]
    /\ i' = i + 1
    /\ UNCHANGED << args, pc, edits, blockStart, blockEnd, blk >>

RegularDone ==
    /\ pc = "regular"
    /\ i = Len(lines)
    /\ pc' = "regularDone"
    /\ UNCHANGED << args, i, edits, blockStart, blockEnd, blk, deco >>

NextRegular == RegularBlock \/ RegularSkipLine \/ RegularTrailing \/ RegularDone

\* the most lines of a document handed to the regular-comment pass
MaxRunLines == 3

\* regular comments with paired, open, closing and escaped backticks in two
\* indents, a MARK line, a doc line, a trailing comment and a line of code
RegularTexts ==
    { Chars("// use ") \o <<Backtick, "f", Backtick>> \o Chars(" here"),
      Chars("// open ") \o <<Backtick>> \o Chars("span"),
      Chars("// goes on"),
      Chars("// end") \o <<Backtick>> \o Chars(" and ") \o <<Backtick, Backtick>>,
      Chars("  // in ") \o <<Backtick>> \o Chars("y"),
      Chars("  //z") \o <<Backtick>>,
      Chars("// MARK: - ") \o <<Backtick, "m", Backtick>>,
      Chars("/// d ") \o <<Backtick>>,
      Chars("x = 1 // t ") \o <<Backtick, "u", Backtick>>,
      Chars("// e \\") \o <<Backtick>> \o Chars(" n ") \o <<Backtick>> \o Chars("w"),
      Chars("//"),
      Chars("x = 2") }

InitRegular == InitDeco(RegularTexts, MaxRunLines, "regular")

SpecRegular == InitRegular /\ [][NextRegular]_vars

\* the line is a full-line // comment: white space, two slashes and no third,
\* and not a MARK line
IsRegularCommentText(line) ==
    LET n == RunIn(line, 1, SpaceSet)
    IN /\ SubSeq(line, n + 1, n + 2) = <<"/", "/">>
       /\ Len(line) = n + 2 \/ line[n + 3] # "/"
       /\ ~IsMarkLineText(line)

\* the lines from a to b (0-based) are full-line // comments of one indent
SameCommentRun(a, b) ==
    \A l \in a..b :
        /\ IsRegularCommentText(lines[l + 1])
        /\ RunIn(lines[l + 1], 1, SpaceSet) = RunIn(lines[a + 1], 1, SpaceSet)
        /\ SubSeq(lines[l + 1], 1, RunIn(lines[l + 1], 1, SpaceSet))
              = SubSeq(lines[a + 1], 1, RunIn(lines[a + 1], 1, SpaceSet))

\* an unescaped backtick stands at column c of line l
UnescapedBacktickAt(l, c) ==
    /\ lines[l + 1][c + 1] = Backtick
    /\ RunInBack(lines[l + 1], c, {Backslash}) % 2 = 0

\* the unescaped backticks of the comment run of line l that stand before
\* column c of line l, as pairs of line and column
BackticksBefore(l, c) ==
    UNION { { <<m, d>> : d \in { e \in 0..(Len(lines[m + 1]) - 1) :
                                   (m < l \/ e < c) /\ UnescapedBacktickAt(m, e) } } :
            m \in { n \in 0..l : SameCommentRun(n, l) } }

\* an unescaped backtick of the comment run of line l stands at or after
\* column c of line l
BacktickAtOrAfter(l, c) ==
    \E m \in l..(Len(lines) - 1) :
        /\ SameCommentRun(l, m)
        /\ \E d \in 0..(Len(lines[m + 1]) - 1) :
              (m > l \/ d >= c) /\ UnescapedBacktickAt(m, d)

(***************************************************************************)
(* C16: in a run of consecutive full-line // comments of one indent, a     *)
(* code range is returned only for text strictly between an unescaped      *)
(* opening backtick and a later unescaped closing backtick of the same run *)
(* (the span may continue across lines): the range lies in the comment     *)
(* text, holds no unescaped backtick, an odd number of unescaped backticks *)
(* of the run stands before it and one more follows it.  Nothing is        *)
(* returned after a backtick that is still open at the end of the run.     *)
(***************************************************************************)
C16_CodeRangesBetweenPairedBackticks ==
    pc \in {"regular", "regularDone"} =>
        \A r \in RangeSet("regularCommentInlineCodeColorRanges") :
            IsRegularCommentText(lines[r.line + 1]) =>
                /\ RunIn(lines[r.line + 1], 1, SpaceSet) + 2 <= r.start
                /\ r.start < r.end
                /\ r.end <= Len(lines[r.line + 1])
                /\ \A c \in r.start..(r.end - 1) : ~UnescapedBacktickAt(r.line, c)
                /\ Cardinality(BackticksBefore(r.line, r.start)) % 2 = 1
                /\ BacktickAtOrAfter(r.line, r.end)

\* a span that opens on the first line, takes the whole second line and is
\* closed on the third
C16_Witness ==
    /\ pc = "regularDone"
    /\ lines = << Chars("// open ") \o <<Backtick>> \o Chars("span"),
                  Chars("// goes on"),
                  Chars("// end") \o <<Backtick>> \o Chars(" and ") \o <<Backtick, Backtick>> >>
    /\ deco.regularCommentInlineCodeColorRanges =
          << Range(0, 9, 13), Range(1, 2, 10), Range(2, 2, 6) >>

(***************************************************************************)
(* Reflow of indented blocks with wrapCountFromCommentStart set.           *)
(***************************************************************************)
\* a paragraph that fills the width exactly when the indent does not count, a
\* short sentence, a doc tag, a token longer than the width, a blank line
IndentTexts ==
    { <<" ">> \o Rep("a", 18) \o <<" ">> \o Rep("b", 18) \o Chars(" cc"),
      Chars(" dd  ee."),
      Chars(" - Returns: ") \o Rep("f", 12) \o <<" ">> \o Rep("g", 12) \o Chars(" hh"),
      <<" ">> \o Rep("x", 38),
      <<>> }

InitIndent ==
    InitWrap({Chars("  "), <<"\t">>}, {LinePrefix, DocPrefix}, IndentTexts,
             {Call(0, TRUE, FALSE)})

SpecIndent == InitIndent /\ [][NextWrap]_vars

\* the indents the block is compared with
OtherIndents == { <<>>, Spaces(8) }

\* the lines of the current block with the indent `other` in place of theirs
Reindented(other) ==
    [k \in 1..BlockSize |-> other \o Substring(lines[blockStart + k], Len(BlockIndent))]

\* the block wraps to the same lines, indent aside, under every other indent,
\* and every output line keeps the indent of the block
SameWrapUnderEveryIndent ==
    /\ \A other \in OtherIndents :
          LET there == wrapCommentBlock(Reindented(other), clampMax(maxLineLength),
                                        wrapCountFromCommentStart,
                                        avoidWrappingAtPunctuationBreaks)
          IN /\ Len(there) = OutCount
             /\ \A n \in 1..OutCount :
                   /\ StartsWith(there[n], other)
                   /\ Substring(there[n], Len(other)) = Substring(blk.output[n], Len(BlockIndent))
    /\ \A n \in 1..OutCount : StartsWith(blk.output[n], BlockIndent \o BlockPrefix)

(***************************************************************************)
(* C18 as stated: with wrapCountFromCommentStart set, two blocks that      *)
(* differ in their indent only wrap to lines that are the same once the    *)
(* indent is removed, every wrapped line keeps the indent of its block,    *)
(* and its length measured from the comment marker is at most the width.   *)
(***************************************************************************)
C18_IndentIndependentAndWithinWidth ==
    (BlockDone /\ wrapCountFromCommentStart) =>
        /\ SameWrapUnderEveryIndent
        /\ \A n \in 1..OutCount :
              blk.origin[n].kind \in WrappedKinds =>
                  Len(blk.output[n]) - Len(BlockIndent) <= clampMax(maxLineLength)

(***************************************************************************)
(* C18, amended: with wrapCountFromCommentStart set, two blocks that       *)
(* differ in their indent only wrap to lines that are the same once the    *)
(* indent is removed, every wrapped line keeps the indent of its block,    *)
(* and its length measured from the comment marker is at most the width    *)
(* unless its wrapped content is a single token.                           *)
(***************************************************************************)
C18_IndentIndependentWithinWidthButLongTokens ==
    (BlockDone /\ wrapCountFromCommentStart) =>
        /\ SameWrapUnderEveryIndent
        /\ \A n \in 1..OutCount :
              blk.origin[n].kind \in WrappedKinds =>
                  \/ Len(SplitWords(blk.origin[n].content)) <= 1
                  \/ Len(blk.output[n]) - Len(BlockIndent) <= clampMax(maxLineLength)

\* an indented block whose paragraph fills the width from the comment marker
\* and is longer than the width from the start of the line
C18_Witness ==
    /\ BlockDone
    /\ wrapCountFromCommentStart
    /\ BlockIndent = <<" ", " ">>
    /\ OutCount = 2
    /\ blk.origin[1].kind = "paragraph"
    /\ Len(blk.output[1]) = 42
    /\ Len(SplitWords(blk.origin[1].content)) = 2
    /\ blk.output[2] = Chars("  // cc")

(***************************************************************************)
(* Reflow under a malformed width.                                         *)
(***************************************************************************)
\* paragraphs that wrap differently at widths just below 40, and a doc tag
WidthTexts ==
    { <<" ">> \o Rep("a", 18) \o <<" ">> \o Rep("b", 18) \o Chars(" cc"),
      <<" ">> \o Rep("d", 17) \o <<" ">> \o Rep("e", 17) \o Chars("  ff."),
      Chars(" - Returns: ") \o Rep("g", 12) \o <<" ">> \o Rep("h", 13) \o Chars(" k"),
      Chars(" mm") }

\* missing, not a number, a string, negative, zero, below 40 with and without
\* a fraction, 40 with a fraction, and two proper widths
WidthValues ==
    { JsOther("undefined"), JsOther("NaN"), JsOther("string"), JsNumber(-5), JsTenths(-5), JsNumber(0), JsNumber(38),
      JsTenths(399), JsTenths(407), JsNumber(40), JsNumber(44) }

InitWidth ==
    InitWrap({<<>>}, {LinePrefix, DocPrefix}, WidthTexts,
             { [maxLineLength |-> v, wrapCountFromCommentStart |-> FALSE,
                avoidWrappingAtPunctuationBreaks |-> FALSE] : v \in WidthValues })

SpecWidth == InitWidth /\ [][NextWrap]_vars

\* the requested width is missing, not a number, non-positive or below 40
IsMalformedWidth(value) == value.type # "number" \/ value.tenths < 400

(***************************************************************************)
(* C19: a requested wrap width that is missing, not a number, non-positive *)
(* or below 40 never makes the command fail: it returns exactly the edits  *)
(* it returns for the width 40.                                            *)
(***************************************************************************)
C19_MalformedWidthWrapsAtForty ==
    (pc = "done" /\ IsMalformedWidth(maxLineLength)) =>
        edits = computeWrapCommentsReplaceEdits(lines, JsNumber(40),
                    wrapCountFromCommentStart, avoidWrappingAtPunctuationBreaks)

\* a missing width: the paragraph is wrapped after the 40th column
C19_Witness ==
    /\ pc = "done"
    /\ maxLineLength = JsOther("undefined")
    /\ lines = << Chars("// ") \o Rep("a", 18) \o <<" ">> \o Rep("b", 18) \o Chars(" cc"),
                  CodeLine >>
    /\ edits = << [startLine |-> 0, endLine |-> 0,
                   text |-> Chars("// ") \o Rep("a", 18) \o <<" ">> \o Rep("b", 18)
                               \o EOL \o Chars("// cc")] >>

(***************************************************************************)
(* Reflow of documents with several blocks.                                *)
(***************************************************************************)
\* comment lines of both kinds and two indents that reflow changes, one it
\* leaves alone, a MARK line, a line of four slashes, code with and without
\* a trailing comment, and an empty line
BlockTexts ==
    { Chars("// dd  ee"),
      Chars("/// dd  ee"),
      Chars("  // dd  ee"),
      Chars("  /// mm  nn"),
      Chars("// kk"),
      Chars("// MARK: - Setup"),
      Chars("//// ff  gg"),
      Chars("let x = 1"),
      Chars("x = 2 // yy  zz"),
      <<>> }

InitBlocks ==
    /\ lines \in SeqsUpTo(BlockTexts, MaxLines)
    /\ maxLineLength = JsNumber(0)
    /\ wrapCountFromCommentStart = FALSE
    /\ avoidWrappingAtPunctuationBreaks = FALSE
    /\ pc = "scan"
    /\ i = 0
    /\ edits = <<>>
    /\ blockStart = 0
    /\ blockEnd = 0
    /\ blk = BlockStart
    /\ deco = NoDecorations
    /\ HostIdle

SpecBlocks == InitBlocks /\ [][NextWrap]_vars

\* the prefix kind of a line: white space and then exactly two or exactly
\* three slashes; any other line is no comment line
CommentKind(line) ==
    LET slashes == RunIn(line, RunIn(line, 1, SpaceSet) + 1, {"/"})
    IN IF slashes = 2 THEN "//" ELSE IF slashes = 3 THEN "///" ELSE "none"

\* the lines a..b (0-based) are comment lines of one kind and one indent
CommentRun(a, b) ==
    /\ 0 <= a /\ a <= b /\ b < Len(lines)
    /\ \A l \in a..b :
          /\ CommentKind(lines[l + 1]) # "none"
          /\ CommentKind(lines[l + 1]) = CommentKind(lines[a + 1])
          /\ RunIn(lines[l + 1], 1, SpaceSet) = RunIn(lines[a + 1], 1, SpaceSet)
          /\ \A c \in 1..RunIn(lines[a + 1], 1, SpaceSet) : lines[l + 1][c] = lines[a + 1][c]

\* and the run cannot be extended by the line before or the line after
MaximalCommentRun(a, b) ==
    /\ CommentRun(a, b)
    /\ ~CommentRun(a - 1, b)
    /\ ~CommentRun(a, b + 1)

(***************************************************************************)
(* C20: the edits of one call of computeWrapCommentsReplaceEdits are in    *)
(* strictly increasing startLine order, their line ranges are pairwise     *)
(* disjoint, and each range is exactly one maximal run of comment lines of *)
(* one prefix kind (// or ///) and one indent, so no range holds a line    *)
(* that is no comment line.                                                *)
(***************************************************************************)
C20_EditsAreOrderedMaximalRuns ==
    pc \in {"scan", "block", "done"} =>
        /\ \A e \in 1..Len(edits) : MaximalCommentRun(edits[e].startLine, edits[e].endLine)
        /\ \A e, f \in 1..Len(edits) :
              e < f => /\ edits[e].startLine < edits[f].startLine
                       /\ edits[e].endLine < edits[f].startLine

\* a block of two lines and a block of one line of the other kind, both
\* rewritten
C20_Witness ==
    /\ pc = "done"
    /\ lines = << Chars("// dd  ee"), Chars("// kk"), Chars("/// dd  ee") >>
    /\ edits = << [startLine |-> 0, endLine |-> 1, text |-> Chars("// dd ee kk")],
                  [startLine |-> 2, endLine |-> 2, text |-> Chars("/// dd ee")] >>

(***************************************************************************)
(* Reflow of doc blocks with heading lines.                                *)
(***************************************************************************)
\* prose, two heading lines (one indented like the continuation of a doc
\* tag), a doc tag with a description and one without, and a list item, in
\* /// blocks
HeadingTexts ==
    { Chars(" aa  bb"),
      Chars(" Notes:"),
      Chars("   See also:"),
      Chars(" - Returns: x"),
      Chars(" - Throws:"),
      Chars(" * item  one") }

InitHeading == InitWrap({<<>>}, {DocPrefix}, HeadingTexts, {Call(0, FALSE, FALSE)})

SpecHeading == InitHeading /\ [][NextWrap]_vars

(***************************************************************************)
(* C22: in reflow, a line that passes findDocColonHeading and is no list   *)
(* item is a hard boundary: it is emitted unchanged as an output line of   *)
(* its own, made from that line alone, so that its text is joined neither  *)
(* with the text before it nor with the text after it.                     *)
(***************************************************************************)
C22_HeadingIsHardBoundary ==
    LET P == blockParts
    IN BlockDone => \A k \in 0..(BlockSize - 1) :
          (/\ findDocColonHeading(P[k + 1].afterPrefix).ok
           /\ ~isMarkdownListItem(TrimStart(P[k + 1].afterPrefix)))
              => EmittedVerbatim(k)

\* the whitespace-separated tokens of the texts from the n-th on, in order
RECURSIVE TokensFrom(_, _)
TokensFrom(texts, n) ==
    IF n > Len(texts) THEN <<>>
    ELSE SplitWords(texts[n]) \o TokensFrom(texts, n + 1)

(***************************************************************************)
(* C27: reflow preserves the words of a comment: the sequence of           *)
(* whitespace-separated tokens of the text after the comment prefix, read  *)
(* over the lines of a block in order, is the same before and after the    *)
(* block is wrapped; no token is joined with another, split, dropped,      *)
(* duplicated or moved.                                                    *)
(***************************************************************************)
C27_TokensPreserved ==
    BlockDone =>
        TokensFrom([k \in 1..BlockSize |-> SrcAfter(k - 1)], 1)
            = TokensFrom([n \in 1..OutCount |-> OutAfter(n)], 1)

(***************************************************************************)
(* Reflow with avoidWrappingAtPunctuationBreaks.                           *)
(***************************************************************************)
\* prose that ends in sentence punctuation, with and without a closer, prose
\* that does not, a doc tag that ends in a full stop, a line aligned like
\* its continuation, and a list item
PunctuationTexts ==
    { Chars(" dd  ee."),
      Chars(" ff gg"),
      Chars(" hh!) "),
      Chars(" - Returns: mm."),
      Chars("   nn oo?"),
      Chars(" * item.") }

InitPunctuation ==
    InitWrap({<<>>}, {LinePrefix, DocPrefix}, PunctuationTexts,
             {Call(0, FALSE, TRUE), Call(0, FALSE, FALSE)})

SpecPunctuation == InitPunctuation /\ [][NextWrap]_vars

\* the text ends, before trailing whitespace, in . ! or ? and any number of
\* the closers ) ] " '
EndsInSentencePunctuation(text) ==
    \E p \in 1..Len(text) :
        /\ text[p] \in {".", "!", "?"}
        /\ \E q \in p..Len(text) :
              /\ \A c \in (p + 1)..q : text[c] \in {")", "]", "\"", "'"}
              /\ \A c \in (q + 1)..Len(text) : IsSpace(text[c])

\* the output lines that hold text of source line k
OutLinesOf(k) == {n \in 1..OutCount : k \in blk.origin[n].src}

\* source line k was consumed as an aligned continuation line of the doc tag
\* on an earlier line
IsTagContinuationLine(k) ==
    \E n \in OutLinesOf(k) :
        /\ blk.origin[n].kind \in {"tag", "continuation"}
        /\ \E j \in blk.origin[n].src : j < k

\* the text of source line k starts an output line: no output line holds
\* text of line k and of the line before it, and the first output line with
\* text of line k starts with the first word of line k
StartsNewOutputLine(k) ==
    /\ OutLinesOf(k) \cap OutLinesOf(k - 1) = {}
    /\ \A n \in OutLinesOf(k) :
          (\A o \in OutLinesOf(k) : n <= o) =>
              SplitWords(OutAfter(n))[1] = SplitWords(SrcAfter(k))[1]

(***************************************************************************)
(* C23: with avoidWrappingAtPunctuationBreaks set, reflow never joins text *)
(* across a source line that ends in sentence punctuation: the text of the *)
(* following source line always starts a new output line.                  *)
(***************************************************************************)
C23_NoJoinAcrossSentenceEnd ==
    (BlockDone /\ avoidWrappingAtPunctuationBreaks) =>
        \A k \in 1..(BlockSize - 1) :
            (EndsInSentencePunctuation(SrcAfter(k - 1)) /\ ~IsBlankText(SrcAfter(k)))
                => StartsNewOutputLine(k)

(***************************************************************************)
(* C23 as amended: with avoidWrappingAtPunctuationBreaks set, reflow never *)
(* joins text across a source line that ends in sentence punctuation,      *)
(* except in the description of a doc tag: the text of the following       *)
(* source line starts a new output line unless that line is an aligned     *)
(* continuation line of a doc tag, which is joined to the description of   *)
(* the tag whatever the lines before it end in.                            *)
(***************************************************************************)
C23_NoJoinAcrossSentenceEndButInDocTag ==
    (BlockDone /\ avoidWrappingAtPunctuationBreaks) =>
        \A k \in 1..(BlockSize - 1) :
            (/\ EndsInSentencePunctuation(SrcAfter(k - 1))
             /\ ~IsBlankText(SrcAfter(k))
             /\ ~IsTagContinuationLine(k))
                => StartsNewOutputLine(k)

\* two short paragraph lines, the first ends in !) and whitespace: they fit
\* one line of 40 characters and are kept apart
C23_Witness ==
    /\ BlockDone
    /\ avoidWrappingAtPunctuationBreaks
    /\ lines = << Chars("// hh!) "), Chars("// ff gg"), CodeLine >>
    /\ blk.output = << Chars("// hh!)"), Chars("// ff gg") >>

(***************************************************************************)
(* C28: reflow never changes a MARK line: a line that matches the MARK     *)
(* pattern is in the wrapped block unchanged, as a line of its own made    *)
(* from that line alone, whatever comment lines precede or follow it in    *)
(* the block.                                                              *)
(***************************************************************************)
C28_MarkLineKept ==
    BlockDone =>
        \A k \in 0..(BlockSize - 1) :
            IsMarkLineText(lines[blockStart + k + 1]) => EmittedVerbatim(k)

(***************************************************************************)
(* C29: title-casing changes letter case only: the text of every edit of   *)
(* computeTitleCaseMarkCommentsReplaceEdits is as long as the line it      *)
(* replaces and equal to it once both are lower-cased, so that indent,     *)
(* slashes, MARK:, the separator dash, whitespace and punctuation are      *)
(* kept; and once the edits are applied, the command returns no edits.     *)
(***************************************************************************)
C29_CaseOnlyAndIdempotent ==
    /\ \A e \in 1..Len(edits) :
          LET line == lines[edits[e].startLine + 1]
          IN /\ Len(edits[e].text) = Len(line)
             /\ \A c \in 1..Len(line) :
                   \/ edits[e].text[c] = line[c]
                   \/ /\ line[c] \in LetterSet
                      /\ edits[e].text[c] \in {ToLowerChar(line[c]), ToUpperChar(line[c])}
    /\ pc = "titled" =>
          computeTitleCaseMarkCommentsReplaceEdits(ApplyEdits(lines, edits)) = <<>>

\* a title with a first letter raised, an interior minor word kept, the
\* attribute lowered and whitespace around the words
C29_Witness ==
    /\ pc = "titled"
    /\ lines = << Chars("\t//MARK:-\tdrag  and  @Unchecked\t") >>
    /\ edits = << [startLine |-> 0, endLine |-> 0,
                   text |-> Chars("\t//MARK:-\tDrag  and  @unchecked\t")] >>

(***************************************************************************)
(* decorator.ts: the two passes of applyDecorations over the whole         *)
(* document for // MARK: lines, first the separator lines, then the bold   *)
(* ranges.  Each is skipped when its setting is off.                       *)
(***************************************************************************)
\* a faulty variant of markSeparatorLineMatch: whitespace is required between
\* MARK: and the dash
markSeparatorLineMatchSpaced(text) ==
    LET n == RunIn(text, 1, SpaceSet)
        rest == Substring(text, n)
        m == TrimStart(Substring(rest, 2))
        afterColon == Substring(m, 5)
        space == RunIn(afterColon, 1, SpaceSet)
    IN /\ StartsWith(rest, LinePrefix)
       /\ StartsWith(m, MarkWord)
       /\ space > 0
       /\ Len(afterColon) > space
       /\ afterColon[space + 1] = "-"

\* markSeparatorLineRegex /^(\s*)(\/\/)(\s*MARK:\s*-\s*(?:.*)?)$/ .test(text)
markSeparatorLineMatch(text) ==
    LET n == RunIn(text, 1, SpaceSet)
        rest == Substring(text, n)
        m == TrimStart(Substring(rest, 2))
        afterColon == Substring(m, 5)
        space == RunIn(afterColon, 1, SpaceSet)
    IN /\ StartsWith(rest, LinePrefix)
       /\ StartsWith(m, MarkWord)
       /\ Len(afterColon) > space
       /\ afterColon[space + 1] = "-"

\* one iteration of the loop at lines 342-347
MarkSeparatorLine ==
    /\ pc = "separator"
    /\ config.markSeparatorLines
    /\ i < Len(lines)
    /\ deco' = IF markSeparatorLineMatch(lines[i + 1])
               THEN pushRange(deco, "markSeparatorRanges", Range(i, 0, 0))
               ELSE deco
    /\ i' = i + 1
    /\ UNCHANGED << args, pc, edits, blockStart, blockEnd, blk >>

\* the loop has ended, or markSeparatorLines is off
MarkSeparatorDone ==
    /\ pc = "separator"
    /\ (~config.markSeparatorLines \/ i >= Len(lines))
    /\ pc' = "bold"
    /\ i' = 0
    /\ UNCHANGED << args, edits, blockStart, blockEnd, blk, deco >>

\* one iteration of the loop at lines 353-363
MarkBoldLine ==
    /\ pc = "bold"
    /\ config.boldMarkLines
    /\ i < Len(lines)
    /\ LET match == markLineMatch(lines[i + 1])
           commentStartCol == Len(match.indent) + Len(match.slashes)
           commentEndCol == Len(lines[i + 1])
       IN deco' = IF match.ok /\ commentEndCol > commentStartCol
                  THEN pushRange(deco, "markRanges",
                                 Range(i, commentStartCol, commentEndCol))
                  ELSE deco
    /\ i' = i + 1
    /\ UNCHANGED << args, pc, edits, blockStart, blockEnd, blk >>

\* the loop has ended, or boldMarkLines is off
MarkBoldDone ==
    /\ pc = "bold"
    /\ (~config.boldMarkLines \/ i >= Len(lines))
    /\ pc' = "marksDone"
    /\ UNCHANGED << args, i, edits, blockStart, blockEnd, blk, deco >>

NextMark == MarkSeparatorLine \/ MarkSeparatorDone \/ MarkBoldLine \/ MarkBoldDone

\* the lines of the repository's test, and lines with the dash next to the
\* colon, after a tab, after a word, with nothing after MARK:, with four
\* slashes and behind code
MarkTexts ==
    { Chars("    // MARK: - Section"),
      Chars("\t//MARK: - NoSpace"),
      Chars("    //  MARK:- x"),
      Chars("    // MARK:"),
      Chars("    // MARK:foo"),
      Chars("    // Mark: - wrong"),
      Chars("    // Not a mark"),
      Chars("    /// MARK:"),
      Chars("//MARK:\t-"),
      Chars("// MARK: x - y"),
      Chars("//// MARK: - z"),
      Chars("f() // MARK: - t") }

InitMark ==
    /\ lines \in SeqsUpTo(MarkTexts, MaxDecoLines)
    /\ config \in [boldMarkLines : BOOLEAN, markSeparatorLines : BOOLEAN]
    /\ workspaceRun = NoCommand
    /\ ext = NotActivated
    /\ maxLineLength = 0
    /\ wrapCountFromCommentStart = FALSE
    /\ avoidWrappingAtPunctuationBreaks = FALSE
    /\ pc = "separator"
    /\ i = 0
    /\ edits = <<>>
    /\ blockStart = 0
    /\ blockEnd = 0
    /\ blk = BlockStart
    /\ deco = NoDecorations

SpecMark == InitMark /\ [][NextMark]_vars

\* optional whitespace, //, optional whitespace, MARK:, optional whitespace
\* and a dash
IsMarkSeparatorText(line) ==
    \E a \in 0..Len(line), b \in 0..Len(line), c \in 0..Len(line) :
        /\ Len(line) >= a + 2 + b + 5 + c + 1
        /\ \A k \in 1..a : line[k] \in SpaceSet
        /\ line[a + 1] = "/" /\ line[a + 2] = "/"
        /\ \A k \in 1..b : line[a + 2 + k] \in SpaceSet
        /\ SubSeq(line, a + b + 3, a + b + 7) = <<"M", "A", "R", "K", ":">>
        /\ \A k \in 1..c : line[a + b + 7 + k] \in SpaceSet
        /\ line[a + b + c + 8] = "-"

\* the column right after the first // of the line
ColumnAfterSlashes(line) ==
    CHOOSE col \in 2..Len(line) :
        /\ line[col - 1] = "/" /\ line[col] = "/"
        /\ \A d \in 2..(col - 1) : ~(line[d - 1] = "/" /\ line[d] = "/")

(***************************************************************************)
(* C21: with both settings on, a line gets a MARK-bold span if and only if *)
(* it is optional whitespace, //, optional whitespace and MARK: followed   *)
(* by whitespace, the end of the line or a dash, and the span runs from    *)
(* the column right after // to the end of the line; a line gets a         *)
(* MARK-separator span if and only if MARK: is followed by optional        *)
(* whitespace and a dash.  Both are decided line by line over the whole    *)
(* document, each line has at most one span of each kind, and // MARK:foo, *)
(* // Mark: - and /// MARK: get neither.                                   *)
(***************************************************************************)
C21_MarkSpansPerLine ==
    (pc = "marksDone" /\ config.boldMarkLines /\ config.markSeparatorLines) =>
        /\ RangeSet("markRanges")
              = { Range(l - 1, ColumnAfterSlashes(lines[l]), Len(lines[l])) :
                    l \in {m \in 1..Len(lines) : IsMarkLineText(lines[m])} }
        /\ Len(deco.markRanges) = Cardinality(RangeSet("markRanges"))
        /\ RangeSet("markSeparatorRanges")
              = { Range(l - 1, 0, 0) :
                    l \in {m \in 1..Len(lines) : IsMarkSeparatorText(lines[m])} }
        /\ Len(deco.markSeparatorRanges) = Cardinality(RangeSet("markSeparatorRanges"))

\* a separator line after a tab and a plain MARK: line
C21_Witness ==
    /\ pc = "marksDone"
    /\ lines = << Chars("\t//MARK: - NoSpace"), Chars("    // MARK:") >>
    /\ deco.markRanges = << Range(0, 3, 18), Range(1, 6, 12) >>
    /\ deco.markSeparatorRanges = << Range(0, 0, 0) >>

(***************************************************************************)
(* decorator.ts: the doc-block pass with tokenizeInlineSegments taken one  *)
(* iteration of its loops at a time.  blk holds the tokenizer: the         *)
(* segments of the block, the segment n and the index pos in its text,     *)
(* runStart, the in-code flag, the emphasis stack and the range lists.     *)
(***************************************************************************)
\* the tokenizer before its first segment, parsed being what the for loop
\* of parseDocBlock made of the count lines of the block
tokenizerStart(parsed, count) ==
    [segments |-> parsed.inlineSegments, n |-> 1, pos |-> 0, runStart |-> 0,
     inBacktickCode |-> FALSE, emphasisStack |-> << >>, out |-> parsed.out,
     count |-> count]

\* parseDocBlock up to its call of tokenizeInlineSegments
DocBlockParse ==
    /\ pc = "doc"
    /\ i < Len(lines)
    /\ docLineMatch(lines[i + 1]).ok
    /\ blk' = tokenizerStart(
                  parseDocLines(lines, i, docBlockLength(lines, i),
                                [out |-> NoDecorations, inlineSegments |-> << >>]),
                  docBlockLength(lines, i))
    /\ pc' = "tokenize"
    /\ UNCHANGED << args, i, edits, blockStart, blockEnd, deco >>

\* an unescaped backtick at pos
TokenizeBacktick ==
    /\ pc = "tokenize"
    /\ blk.n <= Len(blk.segments)
    /\ blk.pos < Len(blk.segments[blk.n].text)
    /\ blk.segments[blk.n].text[blk.pos + 1] = Backtick
    /\ ~isEscapedAt(blk.segments[blk.n].text, blk.pos)
    /\ blk' = [flushAndMark(blk, blk.segments[blk.n], blk.runStart, blk.pos, 1)
                  EXCEPT !.inBacktickCode = ~@,
                         !.pos = blk.pos + 1,
                         !.runStart = blk.pos + 1]
    /\ UNCHANGED << args, pc, i, edits, blockStart, blockEnd, deco >>

\* the branch taken at pos when no unescaped backtick stands there: the
\* marker matchEmphasisMarker finds outside code, or nothing
emphasisAt(st) ==
    IF st.inBacktickCode THEN NoMatch
    ELSE matchEmphasisMarker(st.segments[st.n].text, st.pos)

backtickAt(st) ==
    /\ st.segments[st.n].text[st.pos + 1] = Backtick
    /\ ~isEscapedAt(st.segments[st.n].text, st.pos)

\* an emphasis marker at pos, outside code
TokenizeEmphasis ==
    /\ pc = "tokenize"
    /\ blk.n <= Len(blk.segments)
    /\ blk.pos < Len(blk.segments[blk.n].text)
    /\ ~backtickAt(blk)
    /\ emphasisAt(blk).ok
    /\ blk' = [flushAndMark(blk, blk.segments[blk.n], blk.runStart, blk.pos,
                            emphasisAt(blk).length)
                  EXCEPT !.emphasisStack = toggleEmphasis(@, emphasisAt(blk)),
                         !.pos = blk.pos + emphasisAt(blk).length,
                         !.runStart = blk.pos + emphasisAt(blk).length]
    /\ UNCHANGED << args, pc, i, edits, blockStart, blockEnd, deco >>

\* any other character: i += 1
TokenizeText ==
    /\ pc = "tokenize"
    /\ blk.n <= Len(blk.segments)
    /\ blk.pos < Len(blk.segments[blk.n].text)
    /\ ~backtickAt(blk)
    /\ ~emphasisAt(blk).ok
    /\ blk' = [blk EXCEPT !.pos = @ + 1]
    /\ UNCHANGED << args, pc, i, edits, blockStart, blockEnd, deco >>

\* the end of a segment: flushRun(text.length), and the next segment
TokenizeSegmentEnd ==
    /\ pc = "tokenize"
    /\ blk.n <= Len(blk.segments)
    /\ blk.pos >= Len(blk.segments[blk.n].text)
    /\ blk' = [flushRun(blk, blk.segments[blk.n], blk.runStart,
                        Len(blk.segments[blk.n].text))
                  EXCEPT !.n = @ + 1, !.pos = 0, !.runStart = 0]
    /\ UNCHANGED << args, pc, i, edits, blockStart, blockEnd, deco >>

\* the tokenizer returns: the ranges of the block are pushed onto the lists
\* of applyDecorations
TokenizeBlockEnd ==
    /\ pc = "tokenize"
    /\ blk.n > Len(blk.segments)
    /\ deco' = [list \in DOMAIN deco |-> deco[list] \o blk.out[list]]
    /\ i' = i + blk.count
    /\ pc' = "doc"
    /\ UNCHANGED << args, edits, blockStart, blockEnd, blk >>

NextInline ==
    \/ DocSkipLine
    \/ DocBlockParse
    \/ TokenizeBacktick
    \/ TokenizeEmphasis
    \/ TokenizeText
    \/ TokenizeSegmentEnd
    \/ TokenizeBlockEnd
    \/ DocDone

\* the doc comment lines of the block pass, and one with delimiters behind
\* two backslashes
InlineTexts ==
    DocTexts \cup { Chars("/// a\\\\*b*\\\\") \o <<Backtick>> \o Chars("c") }

InitInline == InitDeco(InlineTexts, MaxDecoLines, "doc")

SpecInline == InitInline /\ [][NextInline]_vars

\* taking the tokenizer by steps gives the ranges of parseDocBlock
InlineStepsAgree ==
    (pc = "tokenize" /\ blk.n > Len(blk.segments)) =>
        /\ blk.out = parseDocBlock(lines, i, blk.count).out
        /\ blk.emphasisStack = parseDocBlock(lines, i, blk.count).emphasisStack
        /\ blk.inBacktickCode = parseDocBlock(lines, i, blk.count).inBacktickCode

(***************************************************************************)
(* Vocabulary of the claims about the tokenizer's steps.                   *)
(***************************************************************************)
\* the tokenizer stands at a character of a segment
Examining ==
    /\ pc = "tokenize"
    /\ blk.n <= Len(blk.segments)
    /\ blk.pos < Len(blk.segments[blk.n].text)

SegmentText == blk.segments[blk.n].text

CharAtPos == SegmentText[blk.pos + 1]

\* the run of up to three copies of the character at pos
MarkerStringAtPos ==
    LET len == CHOOSE l \in 1..3 :
                   /\ blk.pos + l <= Len(SegmentText)
                   /\ \A k \in 1..l : SegmentText[blk.pos + k] = CharAtPos
                   /\ \/ l = 3
                      \/ blk.pos + l = Len(SegmentText)
                      \/ SegmentText[blk.pos + l + 1] # CharAtPos
    IN [k \in 1..len |-> CharAtPos]

\* the number of backslashes that stand right before pos
BackslashesBeforePos ==
    CHOOSE k \in 0..blk.pos :
        /\ \A j \in 1..k : SegmentText[blk.pos - j + 1] = Backslash
        /\ k = blk.pos \/ SegmentText[blk.pos - k] # Backslash

IsAlphanumeric(c) == c \in LetterSet \cup DigitSet

\* the run of underscores at pos stands between two alphanumeric characters
UnderscoresInsideWord ==
    /\ CharAtPos = "_"
    /\ blk.pos > 0
    /\ IsAlphanumeric(SegmentText[blk.pos])
    /\ blk.pos + Len(MarkerStringAtPos) < Len(SegmentText)
    /\ IsAlphanumeric(SegmentText[blk.pos + Len(MarkerStringAtPos) + 1])

(***************************************************************************)
(* C24: at every step of the tokenizer within a block, the emphasis stack  *)
(* changes only at a * or _ outside code, and then it loses its top entry  *)
(* if that entry has the marker string found at the position, and          *)
(* otherwise gains one entry with that marker string; while the in-code    *)
(* flag is set the stack does not change; and going from one segment (one  *)
(* line of the block) to the next changes neither the stack nor the flag.  *)
(***************************************************************************)
C24_StackDiscipline ==
    [][(pc = "tokenize" /\ pc' = "tokenize") =>
          LET S == blk.emphasisStack
              T == blk'.emphasisStack
          IN /\ T # S =>
                 /\ Examining
                 /\ ~blk.inBacktickCode
                 /\ CharAtPos \in {"*", "_"}
                 /\ IF Len(S) > 0 /\ S[Len(S)].marker = MarkerStringAtPos
                    THEN T = SubSeq(S, 1, Len(S) - 1)
                    ELSE /\ Len(T) = Len(S) + 1
                         /\ SubSeq(T, 1, Len(S)) = S
                         /\ T[Len(T)].marker = MarkerStringAtPos
             /\ blk.inBacktickCode => T = S
             /\ blk'.n # blk.n =>
                 /\ T = S
                 /\ blk'.inBacktickCode = blk.inBacktickCode]_vars

\* the second line of a block is reached inside a code span opened on the
\* first, whose * pushed nothing
C24_Witness ==
    /\ pc = "tokenize"
    /\ lines = << Chars("/// open ") \o <<Backtick>> \o Chars("co*de"),
                  Chars("/// more") \o <<Backtick>> \o Chars(" _done_") >>
    /\ blk.n = 2
    /\ blk.pos = 0
    /\ blk.inBacktickCode
    /\ blk.emphasisStack = << >>

(***************************************************************************)
(* C25 as stated: at a backtick, * or _ the tokenizer stands at, an odd    *)
(* number of backslashes right before it leaves the in-code flag and the   *)
(* stack as they are, and an even number makes it a delimiter: a backtick  *)
(* toggles the flag, a * or _ pushes or pops the stack.                    *)
(***************************************************************************)
C25_EscapedNeverElseDelimiter ==
    [][(Examining /\ pc' = "tokenize" /\ CharAtPos \in {Backtick, "*", "_"}) =>
          IF BackslashesBeforePos % 2 = 1
          THEN /\ blk'.inBacktickCode = blk.inBacktickCode
               /\ blk'.emphasisStack = blk.emphasisStack
          ELSE /\ CharAtPos = Backtick => blk'.inBacktickCode # blk.inBacktickCode
               /\ CharAtPos \in {"*", "_"} => blk'.emphasisStack # blk.emphasisStack]_vars

(***************************************************************************)
(* C25, amended: an odd number of backslashes right before a backtick, *   *)
(* or _ leaves the in-code flag and the stack as they are.  After an even  *)
(* number (zero too) a backtick toggles the flag, and a * or _ pushes or   *)
(* pops the stack unless the in-code flag is set or it is a run of _       *)
(* between two alphanumeric characters.                                    *)
(***************************************************************************)
C25_EscapedNeverElseDelimiterOutsideCodeAndWords ==
    [][(Examining /\ pc' = "tokenize" /\ CharAtPos \in {Backtick, "*", "_"}) =>
          IF BackslashesBeforePos % 2 = 1
          THEN /\ blk'.inBacktickCode = blk.inBacktickCode
               /\ blk'.emphasisStack = blk.emphasisStack
          ELSE /\ CharAtPos = Backtick =>
                   /\ blk'.inBacktickCode # blk.inBacktickCode
                   /\ blk'.emphasisStack = blk.emphasisStack
               /\ CharAtPos \in {"*", "_"} =>
                   /\ blk'.inBacktickCode = blk.inBacktickCode
                   /\ (blk'.emphasisStack # blk.emphasisStack)
                          <=> (~blk.inBacktickCode /\ ~UnderscoresInsideWord)]_vars

\* a* is plain after two backslashes, so the * opens; b is italic up to the
\* second *, and the backtick after two more backslashes opens code
C25_Witness ==
    /\ pc = "tokenize"
    /\ lines = << Chars("/// a\\\\*b*\\\\") \o <<Backtick>> \o Chars("c") >>
    /\ blk.n = 2
    /\ blk.inBacktickCode
    /\ blk.emphasisStack = << >>
    /\ blk.out.italicRanges = << Range(0, 8, 9) >>
    /\ blk.out.markdownMarkerRanges = << Range(0, 7, 8), Range(0, 9, 10), Range(0, 12, 13) >>

(***************************************************************************)
(* The handler of the workspace-wide title-case command (the extension's   *)
(* activate function).  Every await is a step.  workspaceRun holds the     *)
(* files found (their text and what the editor will answer for them), the  *)
(* open documents, the saved texts, the cancellation token and the         *)
(* handler's counters; lines and edits are the handler's lines and         *)
(* replacements of the file at hand.  openTextDocument rejects or gives a  *)
(* document; applyEdit and save give true or false.                        *)
(***************************************************************************)
MaxFiles == 2

\* what the editor answers for a file
Fates == {"openFails", "applyFails", "saveFails", "allSucceed"}

\* a file with a MARK line to change, one with none, one with two among code
FileTexts ==
    { << Chars("// MARK: - setup view") >>,
      << Chars("// MARK: - Setup") >>,
      << Chars("// MARK: aa"), CodeLine, Chars("\t//MARK:- bb cc") >> }

\* uris, after findFiles, and the counters as declared
CommandStart(uris) ==
    [uris |-> uris,
     documents |-> [f \in 1..Len(uris) |-> uris[f].text],
     saved |-> [f \in 1..Len(uris) |-> uris[f].text],
     isCancellationRequested |-> FALSE,
     idx |-> 0, changedFiles |-> 0, changedMarkLines |-> 0, failedFiles |-> 0,
     wasCancelled |-> FALSE]

InitWorkspace ==
    /\ workspaceRun \in
          { CommandStart(uris) :
              uris \in {<<>>} \cup SeqsUpTo([text : FileTexts, fate : Fates], MaxFiles) }
    /\ config = DefaultConfig
    /\ ext = NotActivated
    /\ lines = <<>>
    /\ maxLineLength = 0
    /\ wrapCountFromCommentStart = FALSE
    /\ avoidWrappingAtPunctuationBreaks = FALSE
    /\ pc = "findFiles"
    /\ i = 0
    /\ edits = <<>>
    /\ blockStart = 0
    /\ blockEnd = 0
    /\ blk = BlockStart
    /\ deco = NoDecorations

\* what no step of the handler writes
hostRest ==
    << maxLineLength, wrapCountFromCommentStart, avoidWrappingAtPunctuationBreaks,
       config, ext, i, blockStart, blockEnd, blk, deco >>

\* uris.length === 0: a message, and return
WorkspaceNoFiles ==
    /\ pc = "findFiles"
    /\ Len(workspaceRun.uris) = 0
    /\ pc' = "returned"
    /\ UNCHANGED << hostRest, workspaceRun, lines, edits >>

\* withProgress calls the callback
WorkspaceProgress ==
    /\ pc = "findFiles"
    /\ Len(workspaceRun.uris) > 0
    /\ pc' = "loop"
    /\ UNCHANGED << hostRest, workspaceRun, lines, edits >>

\* the user cancels the notification, at any time while it is shown
WorkspaceCancel ==
    /\ pc \in {"loop", "opening", "applying", "saving"}
    /\ ~workspaceRun.isCancellationRequested
    /\ workspaceRun' = [workspaceRun EXCEPT !.isCancellationRequested = TRUE]
    /\ UNCHANGED << hostRest, pc, lines, edits >>

\* idx < uris.length fails: the loop ends
WorkspaceLoopEnd ==
    /\ pc = "loop"
    /\ workspaceRun.idx >= Len(workspaceRun.uris)
    /\ pc' = "progressDone"
    /\ UNCHANGED << hostRest, workspaceRun, lines, edits >>

\* token.isCancellationRequested: wasCancelled = true; break
WorkspaceCancelled ==
    /\ pc = "loop"
    /\ workspaceRun.idx < Len(workspaceRun.uris)
    /\ workspaceRun.isCancellationRequested
    /\ workspaceRun' = [workspaceRun EXCEPT !.wasCancelled = TRUE]
    /\ pc' = "progressDone"
    /\ UNCHANGED << hostRest, lines, edits >>

\* await openTextDocument(uri)
WorkspaceOpen ==
    /\ pc = "loop"
    /\ workspaceRun.idx < Len(workspaceRun.uris)
    /\ ~workspaceRun.isCancellationRequested
    /\ pc' = "opening"
    /\ UNCHANGED << hostRest, workspaceRun, lines, edits >>

\* a faulty variant of WorkspaceOpenFails: the file is not counted
WorkspaceOpenFailsUncounted ==
    /\ pc = "opening"
    /\ workspaceRun.uris[workspaceRun.idx + 1].fate = "openFails"
    /\ workspaceRun' = [workspaceRun EXCEPT !.idx = @ + 1]
    /\ pc' = "loop"
    /\ UNCHANGED << hostRest, lines, edits >>

\* catch: failedFiles++; continue
WorkspaceOpenFails ==
    /\ pc = "opening"
    /\ workspaceRun.uris[workspaceRun.idx + 1].fate = "openFails"
    /\ workspaceRun' = [workspaceRun EXCEPT !.failedFiles = @ + 1, !.idx = @ + 1]
    /\ pc' = "loop"
    /\ UNCHANGED << hostRest, lines, edits >>

\* the document is open; no replacements: continue
WorkspaceNoReplacements ==
    /\ pc = "opening"
    /\ workspaceRun.uris[workspaceRun.idx + 1].fate # "openFails"
    /\ lines' = workspaceRun.documents[workspaceRun.idx + 1]
    /\ edits' = computeTitleCaseMarkCommentsReplaceEdits(lines')
    /\ Len(edits') = 0
    /\ workspaceRun' = [workspaceRun EXCEPT !.idx = @ + 1]
    /\ pc' = "loop"
    /\ UNCHANGED hostRest

\* the document is open; await applyEdit(edit)
WorkspaceApply ==
    /\ pc = "opening"
    /\ workspaceRun.uris[workspaceRun.idx + 1].fate # "openFails"
    /\ lines' = workspaceRun.documents[workspaceRun.idx + 1]
    /\ edits' = computeTitleCaseMarkCommentsReplaceEdits(lines')
    /\ Len(edits') > 0
    /\ pc' = "applying"
    /\ UNCHANGED << hostRest, workspaceRun >>

\* !ok: failedFiles++; continue
WorkspaceApplyFails ==
    /\ pc = "applying"
    /\ workspaceRun.uris[workspaceRun.idx + 1].fate = "applyFails"
    /\ workspaceRun' = [workspaceRun EXCEPT !.failedFiles = @ + 1, !.idx = @ + 1]
    /\ pc' = "loop"
    /\ UNCHANGED << hostRest, lines, edits >>

\* ok: the document is edited; await document.save()
WorkspaceSave ==
    /\ pc = "applying"
    /\ workspaceRun.uris[workspaceRun.idx + 1].fate # "applyFails"
    /\ workspaceRun' = [workspaceRun EXCEPT
                           !.documents[workspaceRun.idx + 1] = ApplyEdits(lines, edits)]
    /\ pc' = "saving"
    /\ UNCHANGED << hostRest, lines, edits >>

\* !saved: failedFiles++; continue
WorkspaceSaveFails ==
    /\ pc = "saving"
    /\ workspaceRun.uris[workspaceRun.idx + 1].fate = "saveFails"
    /\ workspaceRun' = [workspaceRun EXCEPT !.failedFiles = @ + 1, !.idx = @ + 1]
    /\ pc' = "loop"
    /\ UNCHANGED << hostRest, lines, edits >>

\* saved: changedFiles++; changedMarkLines += replacements.length
WorkspaceSaved ==
    /\ pc = "saving"
    /\ workspaceRun.uris[workspaceRun.idx + 1].fate # "saveFails"
    /\ workspaceRun' = [workspaceRun EXCEPT
                           !.saved[workspaceRun.idx + 1] =
                               workspaceRun.documents[workspaceRun.idx + 1],
                           !.changedFiles = @ + 1,
                           !.changedMarkLines = @ + Len(edits),
                           !.idx = @ + 1]
    /\ pc' = "loop"
    /\ UNCHANGED << hostRest, lines, edits >>

\* the summary message
WorkspaceMessage ==
    /\ pc = "progressDone"
    /\ pc' = "messageShown"
    /\ UNCHANGED << hostRest, workspaceRun, lines, edits >>

NextWorkspace ==
    \/ WorkspaceNoFiles
    \/ WorkspaceProgress
    \/ WorkspaceCancel
    \/ WorkspaceLoopEnd
    \/ WorkspaceCancelled
    \/ WorkspaceOpen
    \/ WorkspaceOpenFails
    \/ WorkspaceNoReplacements
    \/ WorkspaceApply
    \/ WorkspaceApplyFails
    \/ WorkspaceSave
    \/ WorkspaceSaveFails
    \/ WorkspaceSaved
    \/ WorkspaceMessage

SpecWorkspace == InitWorkspace /\ [][NextWorkspace]_vars

(***************************************************************************)
(* Vocabulary of the claim about the workspace command.                    *)
(***************************************************************************)
\* the number of MARK lines of the file as found that title-casing changes
ReplacementsOf(f) == Len(computeTitleCaseMarkCommentsReplaceEdits(workspaceRun.uris[f].text))

FateOf(f) == workspaceRun.uris[f].fate

\* opening, applying the edit and saving all succeed, and there is an edit
OutcomeChanged(f) == FateOf(f) = "allSucceed" /\ ReplacementsOf(f) > 0

\* opening fails, or there is an edit and applying or saving it fails
OutcomeFailed(f) ==
    \/ FateOf(f) = "openFails"
    \/ ReplacementsOf(f) > 0 /\ FateOf(f) \in {"applyFails", "saveFails"}

OutcomeUnchanged(f) == FateOf(f) # "openFails" /\ ReplacementsOf(f) = 0

\* the files the loop is done with
Examined == 1..workspaceRun.idx

\* neither the document nor the saved text of the file has been touched
Untouched(f) ==
    /\ workspaceRun.documents[f] = workspaceRun.uris[f].text
    /\ workspaceRun.saved[f] = workspaceRun.uris[f].text

RECURSIVE ChangedMarkLinesUpTo(_)
ChangedMarkLinesUpTo(f) ==
    IF f = 0 THEN 0
    ELSE ChangedMarkLinesUpTo(f - 1) + (IF OutcomeChanged(f) THEN ReplacementsOf(f) ELSE 0)

(***************************************************************************)
(* C26: at every point of the workspace command, changedFiles is the       *)
(* number of examined files whose saved text differs from the text found,  *)
(* and a saved text differs only where opening, applying and saving all    *)
(* succeeded; failedFiles is the number of examined files of which one of  *)
(* these steps failed; changedMarkLines is the number of replacements of   *)
(* the changed files; every examined file has exactly one of the outcomes  *)
(* unchanged, changed and failed; without cancellation every file is       *)
(* examined whatever failed before it; and once cancellation has been      *)
(* observed the loop is over and no file after the last examined one has   *)
(* been opened or edited.                                                  *)
(***************************************************************************)
C26_OneOutcomePerFile ==
    pc \in {"loop", "opening", "applying", "saving", "progressDone", "messageShown"} =>
        /\ workspaceRun.changedFiles
              = Cardinality({f \in Examined : workspaceRun.saved[f] # workspaceRun.uris[f].text})
        /\ \A f \in 1..Len(workspaceRun.uris) :
              workspaceRun.saved[f] # workspaceRun.uris[f].text =>
                  f \in Examined /\ OutcomeChanged(f)
        /\ \A f \in Examined : OutcomeChanged(f) =>
              workspaceRun.saved[f] = ApplyEdits(workspaceRun.uris[f].text,
                  computeTitleCaseMarkCommentsReplaceEdits(workspaceRun.uris[f].text))
        /\ workspaceRun.failedFiles = Cardinality({f \in Examined : OutcomeFailed(f)})
        /\ workspaceRun.changedMarkLines = ChangedMarkLinesUpTo(workspaceRun.idx)
        /\ workspaceRun.changedFiles + workspaceRun.failedFiles
              + Cardinality({f \in Examined : OutcomeUnchanged(f)}) = workspaceRun.idx
        /\ \A f \in (workspaceRun.idx + 2)..Len(workspaceRun.uris) : Untouched(f)
        /\ (pc = "messageShown" /\ ~workspaceRun.wasCancelled) =>
              workspaceRun.idx = Len(workspaceRun.uris)
        /\ workspaceRun.wasCancelled =>
              /\ pc \in {"progressDone", "messageShown"}
              /\ \A f \in (workspaceRun.idx + 1)..Len(workspaceRun.uris) : Untouched(f)

\* the save of the first file fails and the second file is still changed
C26_Witness ==
    /\ pc = "messageShown"
    /\ workspaceRun.uris
          = << [text |-> << Chars("// MARK: - setup view") >>, fate |-> "saveFails"],
               [text |-> << Chars("// MARK: aa"), CodeLine, Chars("\t//MARK:- bb cc") >>,
                fate |-> "allSucceed"] >>
    /\ workspaceRun.failedFiles = 1
    /\ workspaceRun.changedFiles = 1
    /\ workspaceRun.changedMarkLines = 2
    /\ workspaceRun.saved[1] = << Chars("// MARK: - setup view") >>
    /\ workspaceRun.saved[2] = << Chars("// MARK: Aa"), CodeLine, Chars("\t//MARK:- Bb Cc") >>
    /\ ~workspaceRun.wasCancelled

(***************************************************************************)
(* The extension's redraw debouncing: the module variables decorator and   *)
(* debounceTimer, the handler of onDidChangeTextDocument, the cleanup      *)
(* subscription and deactivate().  ext also holds what the host holds:     *)
(* the document of the active editor (0: no editor), the timers that are   *)
(* pending with the editor their callback captured, how many timers were   *)
(* made, how often each timer's callback called applyDecorations, and      *)
(* whether deactivate() and the disposal have run.                         *)
(***************************************************************************)
MaxTimers == 3

Documents == {1, 2}

\* the state after activate()
Activated ==
    [decorator |-> "decorator", debounceTimer |-> 0, activeTextEditor |-> 1,
     timers |-> {}, made |-> 0, calls |-> [t \in 1..MaxTimers |-> 0],
     deactivated |-> FALSE, disposed |-> FALSE]

InitDebounce ==
    /\ ext \in {[Activated EXCEPT !.activeTextEditor = e] : e \in {0} \cup Documents}
    /\ config = DefaultConfig
    /\ workspaceRun = NoCommand
    /\ lines = <<>>
    /\ maxLineLength = 0
    /\ wrapCountFromCommentStart = FALSE
    /\ avoidWrappingAtPunctuationBreaks = FALSE
    /\ pc = "activated"
    /\ i = 0
    /\ edits = <<>>
    /\ blockStart = 0
    /\ blockEnd = 0
    /\ blk = BlockStart
    /\ deco = NoDecorations

\* what no handler of the extension writes
extRest ==
    << lines, maxLineLength, wrapCountFromCommentStart, avoidWrappingAtPunctuationBreaks,
       config, workspaceRun, pc, i, edits, blockStart, blockEnd, blk, deco >>

\* clearTimeout(debounceTimer), when debounceTimer is set
clearTimeout(e) ==
    [e EXCEPT !.timers = {t \in @ : t.id # e.debounceTimer}]

\* debounceTimer = setTimeout(callback, 50), the callback holding editor
setTimeout(e, editor) ==
    [e EXCEPT !.timers = @ \cup {[id |-> e.made + 1, editor |-> editor]},
              !.made = @ + 1,
              !.debounceTimer = e.made + 1]

\* a faulty variant of onDidChangeTextDocument: the previous timer is not
\* cleared
onDidChangeTextDocumentNoClear(document) ==
    /\ ext.made < MaxTimers
    /\ ext' = IF \/ ext.activeTextEditor = 0
                 \/ ext.activeTextEditor # document
                 \/ ext.decorator = "undefined"
              THEN ext
              ELSE setTimeout(ext, ext.activeTextEditor)
    /\ UNCHANGED extRest

\* the handler, for a change of the document
onDidChangeTextDocument(document) ==
    /\ ext.made < MaxTimers
    /\ ext' = IF \/ ext.activeTextEditor = 0
                 \/ ext.activeTextEditor # document
                 \/ ext.decorator = "undefined"
              THEN ext
              ELSE setTimeout(clearTimeout(ext), ext.activeTextEditor)
    /\ UNCHANGED extRest

\* a timer expires: decorator?.applyDecorations(editor)
TimerExpires ==
    /\ \E t \in ext.timers :
          ext' = [ext EXCEPT !.timers = @ \ {t},
                             !.calls[t.id] = IF ext.decorator = "undefined" THEN @ ELSE @ + 1]
    /\ UNCHANGED extRest

\* the handler of onDidChangeActiveTextEditor: another editor, or none,
\* becomes the active one (its own redraw is no timer's)
onDidChangeActiveTextEditor ==
    /\ \E editor \in ({0} \cup Documents) \ {ext.activeTextEditor} :
          ext' = [ext EXCEPT !.activeTextEditor = editor]
    /\ UNCHANGED extRest

\* decorator?.dispose(); decorator = undefined; clearTimeout(debounceTimer)
cleanUp(e) == [clearTimeout(e) EXCEPT !.decorator = "undefined"]

\* the host calls deactivate()
deactivate ==
    /\ ~ext.deactivated
    /\ ext' = [cleanUp(ext) EXCEPT !.deactivated = TRUE]
    /\ UNCHANGED extRest

\* the host disposes of the cleanup subscription
dispose ==
    /\ ~ext.disposed
    /\ ext' = [cleanUp(ext) EXCEPT !.disposed = TRUE]
    /\ UNCHANGED extRest

NextDebounce ==
    \/ \E document \in Documents : onDidChangeTextDocument(document)
    \/ TimerExpires
    \/ onDidChangeActiveTextEditor
    \/ deactivate
    \/ dispose

SpecDebounce == InitDebounce /\ [][NextDebounce]_vars

\* the runtime runs the callback of every timer that is not cleared
SpecDebounceFair == SpecDebounce /\ WF_vars(TimerExpires)

\* the timer numbered t is pending
Pending(t) == \E timer \in ext.timers : timer.id = t

(***************************************************************************)
(* C30: under any interleaving of document changes, timer expiries,        *)
(* editor switches, deactivate() and the disposal, at most one redraw      *)
(* timer is pending, and it is the one made last; a timer's callback calls *)
(* applyDecorations at most once, and only the timer of the last change    *)
(* does, so a burst of changes gives one call, which comes after the last  *)
(* change: the timer of a change stays pending until it has called         *)
(* applyDecorations, a later change has replaced it or the extension is    *)
(* deactivated, and one of these happens.  Once deactivate() or the        *)
(* disposal has run no timer is pending and no timer calls                 *)
(* applyDecorations again.                                                 *)
(***************************************************************************)
C30_Debounced ==
    /\ [](/\ Cardinality(ext.timers) <= 1
          /\ \A timer \in ext.timers : timer.id = ext.debounceTimer
          /\ \A t \in 1..MaxTimers : ext.calls[t] <= 1
          /\ \A t \in 1..MaxTimers : ext.calls[t] = 1 => ~Pending(t)
          /\ (ext.deactivated \/ ext.disposed) =>
                 ext.timers = {} /\ ext.decorator = "undefined")
    /\ [][/\ \A t \in 1..MaxTimers :
                ext'.calls[t] # ext.calls[t] => ext.debounceTimer = t /\ Pending(t)
          /\ (ext.deactivated \/ ext.disposed) => ext'.calls = ext.calls]_vars
    /\ \A t \in 1..MaxTimers :
          Pending(t) ~> (ext.calls[t] = 1 \/ ext.debounceTimer # t \/ ext.decorator = "undefined")

\* a burst of two changes of the active document: the first timer was
\* cleared and never called, the second called applyDecorations once
C30_Witness ==
    /\ ext.made = 2
    /\ ext.calls = [t \in 1..MaxTimers |-> IF t = 2 THEN 1 ELSE 0]
    /\ ext.timers = {}
    /\ ext.decorator = "decorator"

====
